---- MODULE Spec2Model ----
\* Session-oriented RPC client of the basestation bridge (package dd, Conn):
\* signed requests, reply correlation over the message poll, status queue.
EXTENDS Integers, Sequences, FiniteSets, TLC

\* ---------------------------------------------------------------- bounds
MaxSeq == 3          \* signed requests issued in the modelled session
MaxRespLen == 1      \* messages carried by one HTTP response
MaxPerPid == 2       \* messages the basestation emits for one processID
MaxStatus == 1       \* status broadcasts the basestation emits

NumDevices == 1      \* devices the basestation reports
MaxBelow == 5        \* positions handed to GetCommandForPosition start at -MaxBelow
MaxPosition == 105   \* and go up to MaxPosition
MaxPlainLen == 32    \* longest plaintext handed to Encrypt, in bytes
MaxTriggers == 2     \* Trigger calls followed step by step

\* ------------------------------------------------------ program constants
CMD_OPEN == 2            \* AvailableCommands.Open
CMD_CLOSE == 4           \* AvailableCommands.Close
CMD_STOP == 3            \* AvailableCommands.Stop
OPEN == 100              \* position of a fully open door
CLOSE == 0               \* position of a fully closed door
Bump == 1000             \* dc.nextAccess += 1000
NextAccessDelay == 2000  \* dc.nextAccess = now + 2000
ChanCap == 1             \* make(chan *Message, 1)
InitialTicks == 1        \* ticks := 1

\* ------------------------------------------------------------ goroutines
Callers == {"A", "B"}    \* goroutines each running one Conn.RPC call
Loop == "L"              \* the status loop goroutine (LoopMessages)
Procs == Callers \cup {Loop}
NoProc == "none"

\* ------------------------------------------------------- session material
Prefix == "E"                      \* dc.processID (set by Connect)
EmptyPID == <<>>                   \* the empty processID ""
NilState == -1                     \* ProcessState == nil
ProcessStates == {NilState, 0, 1}
InitClock == 5000                  \* wall clock when Connect has returned
InitNextAccess == 4000             \* crd.UserAccess.NextAccess handed out to Connect
cred == [PhoneSecret |-> "ps", BaseStation |-> "bs", Phone |-> "ph",
         PhonePassword |-> "pp", UserPassword |-> "up"]
sessionID == "sid"
sessionSecret == "ss"

VARIABLES
  active,               \* the goroutines that exist in this run
  clock,                \* wall clock, milliseconds
  nextAccess,           \* dc.nextAccess
  sequenceIDSuffix,     \* dc.sequenceIDSuffix
  genericRequestMutex,  \* holder of dc.genericRequestMutex, or NoProc
  unresolvedRPC,        \* keys of dc.unresolvedRPC (the channel is named by its key)
  chanBuf,              \* buffered content of the waiter channel made for each processID
  pendingMessages,      \* dc.pendingMessages
  pc,                   \* position of each goroutine
  greq,                 \* the signed request (envelope) a goroutine has in flight
  msgs,                 \* messages of the response still to be handled in the current loop
  gresp,                \* the response a goroutine obtained: messages, error text, inlineResponse
  prev,                 \* genericRequest's local prev: the channel taken out of the table
  pid,                  \* processID of the RPC a caller is running (waitForPid's pid)
  ticks, calls,         \* locals of waitForPid
  waited,               \* history: ticks a waiter received before each of its polls, the last still counting
  timerFired,           \* has the timeout timer armed by waitForPid fired (timeout.C ready)
  out,                  \* local of Messages()
  result, reply,        \* what Conn.RPC handed back to its caller
  responseBytes,        \* RPC's local responseBytes: the decoded body of the reply
  output,               \* what rpc.Output of each call points at
  srvReceived,          \* processIDs of RPC requests the basestation has received
  srvEmitted,           \* how many messages the basestation has emitted per processID
  srvStatus,            \* how many status broadcasts it has emitted (Sequence of the last)
  requests,             \* history: signed envelopes in the order they were built
  sendCount,            \* history: sends performed on the channel of each processID
  appendCount,          \* history: appends to pendingMessages per message Sequence
  received,             \* history: status messages (Sequence) seen in HTTP responses
  returned,             \* history: messages handed out by Messages()
  current,              \* DeviceFSMs: FSM.Current() of each configured device, or Absent
  running,              \* the bridge process has not exited
  statusLoop,           \* main's loop over the snapshots: position, and the locals device, haState
  poller,               \* position of the handleStatusUpdates goroutine
  statusCh,             \* the status channel: "open" or "closed"
  cancelled,            \* cancel() of the status goroutine's context has been called
  lastCall,             \* the call into the bridge handled last, and how it ended
  effects,              \* what that call did outwards, in order: FSM entries, publishes, commands
  lastAvailability,     \* history: the payload last published on each device's availability topic
  askedPosition,        \* argument of a call of GetCommandForPosition
  chosenCommand,        \* what that call returned, NoCommand before it has run
  plaintext,            \* src handed to cbcEncCipher.Encrypt
  crypted,              \* key and time of the cipher, and what Encrypt returned
  decrypted,            \* what cbcDecCipher.Decrypt returned for it
  dp,                   \* the dataPayload of a received message: IsEncrypted, Time, and Data as
                        \* base64 decodes it (valid or not, its bytes); key is readData's argument
  eventMu,              \* holder of the lock of each device's FSM, or NoProc
  trigger,              \* the Trigger call each goroutine of the bridge has under way
  triggers,             \* Trigger calls begun so far
  entryLog              \* history: what the Trigger calls did, each entry with its call's number

vars == <<active, clock, nextAccess, sequenceIDSuffix, genericRequestMutex, unresolvedRPC,
          chanBuf, pendingMessages, pc, greq, msgs, gresp, prev, pid, ticks, calls, waited, timerFired,
          out, result, reply, responseBytes, output, srvReceived, srvEmitted, srvStatus,
          requests, sendCount, appendCount, received, returned,
          current, running, statusLoop, poller, statusCh, cancelled, lastCall, effects,
          lastAvailability, askedPosition, chosenCommand, plaintext, crypted, decrypted, dp,
          eventMu, trigger, triggers, entryLog>>

connVars == <<active, nextAccess, sequenceIDSuffix>>
srvVars == <<srvReceived, srvEmitted, srvStatus>>
waitVars == <<pid, ticks, calls, waited, timerFired, prev>>
rpcVars == <<responseBytes, output>>
bridgeVars == <<current, running, statusLoop, poller, statusCh, cancelled, lastCall, effects,
                lastAvailability>>
sessionVars == <<active, clock, nextAccess, sequenceIDSuffix, genericRequestMutex,
                 unresolvedRPC, chanBuf, pendingMessages, pc, greq, msgs, gresp, prev, pid,
                 ticks, calls, waited, timerFired, out, result, reply, responseBytes, output,
                 srvReceived, srvEmitted, srvStatus, requests, sendCount, appendCount,
                 received, returned>>
histVars == <<requests, sendCount, appendCount, received, returned>>
pureVars == <<askedPosition, chosenCommand, plaintext, crypted, decrypted, dp>>
triggerVars == <<eventMu, trigger, triggers, entryLog>>

\* ----------------------------------------------------------- pure helpers
ProcessID(prefix, suffix) == <<prefix, suffix>>     \* fmt.Sprintf("%s-%d", ...)
PIDs == {ProcessID(Prefix, n) : n \in 1..MaxSeq}

md5hash(s) == <<"md5", s>>
IVOf(t) == md5hash(t)                               \* md5hash(fmt.Sprintf("%d", t))
Encrypt(key, iv, data) == <<"aes", key, iv, data>>
HubSignatureUpdate(key, t, data) == <<"hmac", key, t, data>>

Message(id, st, seq) == [ProcessID |-> id, ProcessState |-> st, Sequence |-> seq]
NoMsg == Message(EmptyPID, NilState, 0)
NoResp == [messages |-> <<>>, Message |-> "", inlineResponse |-> NoMsg]
MessagesPath == "app/res/messages"
ActionPath == "app/res/action"

\* genericRequest line 193: message.ProcessState == nil || *message.ProcessState == 0
IsFinal_Always(m) == TRUE
IsFinal(m) == m.ProcessState = NilState \/ m.ProcessState = 0

\* time.Sleep(nextAccess - localTime): the clock reading once the sleep is over
SleepUntil(localTime, na) == IF localTime < na THEN na ELSE localTime

\* lines 236-240: the time value of the request being signed
RequestTime_PreSleep(before, after, na) == before + Bump
RequestTime(before, after, na) == (IF after > na THEN after ELSE na) + Bump

\* line 273: the cursor left for the next request
NextAccessAfter(now) == now + NextAccessDelay

\* line 249: dc.sequenceIDSuffix++
NextSuffix_NoIncrement(s) == IF s = 0 THEN 1 ELSE s
NextSuffix(s) == s + 1

\* line 265: greq.Credential.BaseStation = dc.cred.BaseStation, the other fields
\* of the embedded Credential keep their zero value
EnvelopeCredential_Whole(c) == c
EnvelopeCredential(c) ==
  [PhoneSecret |-> "", BaseStation |-> c.BaseStation, Phone |-> "",
   PhonePassword |-> "", UserPassword |-> ""]

\* lines 243-265: the envelope, built while dc.nextAccess = t
signedRequest_StaleTime(t, tNext, suffix, conf) ==
  LET encData == Encrypt(md5hash(cred.PhoneSecret), IVOf(t), conf.data) IN
  [ProcessID |-> ProcessID(Prefix, suffix), SessionID |-> sessionID,
   SessionSignature |-> HubSignatureUpdate(sessionSecret, t, encData),
   PhoneSignature |-> HubSignatureUpdate(cred.PhoneSecret, t, encData),
   Time |-> tNext, Data |-> encData, IsEncrypted |-> TRUE,
   Path |-> conf.path, requestIfOnline |-> conf.requestIfOnline,
   Credential |-> EnvelopeCredential(cred)]
signedRequest(t, tNext, suffix, conf) ==
  LET encData == Encrypt(md5hash(cred.PhoneSecret), IVOf(t), conf.data) IN
  [ProcessID |-> ProcessID(Prefix, suffix), SessionID |-> sessionID,
   SessionSignature |-> HubSignatureUpdate(sessionSecret, t, encData),
   PhoneSignature |-> HubSignatureUpdate(cred.PhoneSecret, t, encData),
   Time |-> t, Data |-> encData, IsEncrypted |-> TRUE,
   Path |-> conf.path, requestIfOnline |-> conf.requestIfOnline,
   Credential |-> EnvelopeCredential(cred)]

NoReq == signedRequest(0, 0, 0, [data |-> "", path |-> "", requestIfOnline |-> FALSE])

\* ---------------------------------------------------------------- bridge
\* devices of the basestation, the MQTT bridge keeps one FSM for each
Devices == 1..NumDevices
Absent == "absent"                 \* no entry in DeviceFSMs
Positions == {CLOSE, 1, 99, OPEN}
\* payloads that arrive on a command topic
Payloads == {"ONLINE", "offline", "Go_Open", "GO_CLOSE", "stop", "PING"}
RPCErrors == {"timeout", "error"}      \* Conn.RPC timed out, or failed otherwise
RPCOutcomes == {"ok"} \cup RPCErrors

\* fsm.Events handed to fsm.NewFSM
Active == {"online", "opening", "closing", "open", "closed", "stopping", "stopped"}
Events_NoStopped ==
  {[Name |-> "go_online", Src |-> {"offline", "initial"}, Dst |-> "online"],
   [Name |-> "go_offline", Src |-> Active, Dst |-> "offline"],
   [Name |-> "go_open", Src |-> {"closed", "stopped"}, Dst |-> "opening"],
   [Name |-> "go_close", Src |-> {"open", "stopped"}, Dst |-> "closing"],
   [Name |-> "go_opened", Src |-> Active, Dst |-> "open"],
   [Name |-> "go_closed", Src |-> Active, Dst |-> "closed"],
   [Name |-> "go_stop", Src |-> {"online", "opening", "open", "closing", "closed"},
    Dst |-> "stopping"]}
Events ==
  {[Name |-> "go_online", Src |-> {"offline", "initial"}, Dst |-> "online"],
   [Name |-> "go_offline", Src |-> Active, Dst |-> "offline"],
   [Name |-> "go_open", Src |-> {"closed", "stopped"}, Dst |-> "opening"],
   [Name |-> "go_close", Src |-> {"open", "stopped"}, Dst |-> "closing"],
   [Name |-> "go_opened", Src |-> Active, Dst |-> "open"],
   [Name |-> "go_closed", Src |-> Active, Dst |-> "closed"],
   [Name |-> "go_stop", Src |-> {"online", "opening", "open", "closing", "closed"},
    Dst |-> "stopping"],
   [Name |-> "go_stopped", Src |-> {"stopping"}, Dst |-> "stopped"]}
EventNames == {"go_online", "go_offline", "go_open", "go_close", "go_opened", "go_closed",
               "go_stop", "go_stopped"}
InitialState == "initial"

\* FSM.Event: is there a transition for the event from the current state, and
\* where does it lead
Allowed_AnySource(state, event) == \E e \in Events : e.Name = event
Allowed(state, event) == \E e \in Events : e.Name = event /\ state \in e.Src
Destination(state, event) ==
  IF \E e \in Events : e.Name = event
    THEN (CHOOSE e \in Events : e.Name = event).Dst
    ELSE state

\* one outward effect of a call
Effect(kind, d, payload, cmd, retained, outcome) ==
  [kind |-> kind, dev |-> d, payload |-> payload, cmd |-> cmd, retained |-> retained,
   outcome |-> outcome]
Entered(d, state) == Effect("enter", d, state, 0, FALSE, "")
PublishOutcome(ok) == IF ok THEN "ok" ELSE "error"
publishToMQTT(d, topic, retained, payload, ok) ==
  Effect(topic, d, payload, 0, retained, PublishOutcome(ok))
PublishStatus(d, status, ok) == publishToMQTT(d, "state", FALSE, status, ok)
PublishAvailability(d, availability, ok) ==
  publishToMQTT(d, "availability", FALSE, availability, ok)
SafeCommand(d, command, rpc) == Effect("command", d, "", command, FALSE, rpc)

\* SafeCommand lines 67-75: an RPC error is logged and returned, the process goes on
SurvivesCommand_Fatal(rpc) == rpc = "ok"
SurvivesCommand(rpc) == TRUE

\* fsm.Callbacks: what enter_<state> does for device d, given how the publish
\* and the command RPC end
Callbacks_CommandFirst(d, state, ok, rpc) ==
  CASE state \in {"online", "offline"} -> <<PublishAvailability(d, state, ok)>>
    [] state = "opening" -> <<SafeCommand(d, CMD_OPEN, rpc), PublishStatus(d, state, ok)>>
    [] state = "closing" -> <<SafeCommand(d, CMD_CLOSE, rpc), PublishStatus(d, state, ok)>>
    [] state = "stopping" -> <<SafeCommand(d, CMD_STOP, rpc), PublishStatus(d, state, ok)>>
    [] state \in {"open", "closed"} -> <<PublishStatus(d, state, ok)>>
    [] OTHER -> <<>>
Callbacks(d, state, ok, rpc) ==
  CASE state \in {"online", "offline"} -> <<PublishAvailability(d, state, ok)>>
    [] state = "opening" -> <<PublishStatus(d, state, ok), SafeCommand(d, CMD_OPEN, rpc)>>
    [] state = "closing" -> <<PublishStatus(d, state, ok), SafeCommand(d, CMD_CLOSE, rpc)>>
    [] state = "stopping" -> <<PublishStatus(d, state, ok), SafeCommand(d, CMD_STOP, rpc)>>
    [] state \in {"open", "closed"} -> <<PublishStatus(d, state, ok)>>
    [] OTHER -> <<>>

\* FSM.Event on the FSM of device d in the given state: the state it ends in,
\* the error it returns, what its callback did, and whether the process survived
Trigger(d, state, event, ok, rpc) ==
  IF ~Allowed(state, event)
    THEN [state |-> state, err |-> "InvalidEventError", effects |-> <<>>, alive |-> TRUE]
  ELSE IF Destination(state, event) = state
    THEN [state |-> state, err |-> "NoTransitionError", effects |-> <<>>, alive |-> TRUE]
  ELSE LET dst == Destination(state, event)
           cb == Callbacks(d, dst, ok, rpc) IN
       [state |-> dst, err |-> "", effects |-> <<Entered(d, dst)>> \o cb,
        alive |-> \A i \in 1..Len(cb) :
                    cb[i].kind = "command" => SurvivesCommand(cb[i].outcome)]

\* the ways the publish and the command RPC of the callback can end when the
\* event is triggered in the given state: <<publish succeeded, RPC result>>
Outcomes(state, event) ==
  LET cb == Callbacks(0, Destination(state, event), TRUE, "ok") IN
  IF ~Allowed(state, event) \/ Destination(state, event) = state \/ cb = <<>>
    THEN {<<TRUE, "ok">>}
  ELSE IF \E i \in 1..Len(cb) : cb[i].kind = "command"
    THEN BOOLEAN \X RPCOutcomes
  ELSE BOOLEAN \X {"ok"}

\* the callers of Trigger log its error and go on
SurvivesTrigger_Fatal(err) == err = ""
SurvivesTrigger(err) == TRUE

\* subscribeToMQTTCommandTopics line 257: strings.ToUpper of the payload
ToUpper_Identity(payload) == payload
ToUpper(payload) ==
  CASE payload = "offline" -> "OFFLINE"
    [] payload = "Go_Open" -> "GO_OPEN"
    [] payload = "stop" -> "STOP"
    [] OTHER -> payload

\* handleCommand: the event a bus command stands for, "" for an unknown command
CommandEvent(command) ==
  CASE command = "ONLINE" -> "go_online"
    [] command = "OFFLINE" -> "go_offline"
    [] command = "GO_OPEN" -> "go_open"
    [] command = "GO_CLOSE" -> "go_close"
    [] command = "STOP" -> "go_stop"
    [] OTHER -> ""

\* main, status loop: the event a reported position stands for, "" for none
DriverEvent_Nearest(position) == IF position >= 50 THEN "go_opened" ELSE "go_closed"
DriverEvent(position) ==
  IF position = OPEN THEN "go_opened"
  ELSE IF position = CLOSE THEN "go_closed"
  ELSE ""

\* main, status loop: transitions the driver does not trigger
Elided_RedundantOnly(currentState, haState) ==
  \/ currentState = "closed" /\ haState = "go_closed"
  \/ currentState = "open" /\ haState = "go_opened"
Elided(currentState, haState) ==
  \/ currentState = "closed" /\ haState = "go_closed"
  \/ currentState = "open" /\ haState = "go_opened"
  \/ currentState = "opening" /\ haState = "go_closed"
  \/ currentState = "closing" /\ haState = "go_opened"

Call(op, d, cmd, pos, event, triggered, before, err) ==
  [op |-> op, dev |-> d, cmd |-> cmd, pos |-> pos, event |-> event,
   triggered |-> triggered, before |-> before, err |-> err]
NoCall == Call("none", 0, "", -1, "", FALSE, Absent, "")

\* main, status loop: where it stands, with the device and position of the
\* snapshot entry at hand and the target selected for it
At(pc_, d, position, haState) == [pc |-> pc_, dev |-> d, pos |-> position, haState |-> haState]
Range == At("range", 0, -1, "")        \* blocked in `for status := range statusCh`

\* GetDeviceFSM: is there an FSM registered for device d
Exists_Never(d) == FALSE
Exists(d) == current[d] # Absent

\* handleStatusUpdates lines 331-335: is the status channel closed when
\* LoopMessages has returned err ("" for nil)
ClosesOn_Never(err) == FALSE
ClosesOn(err) == err # ""

\* a snapshot can reach main's range: the status goroutine is inside LoopMessages
Feeding == poller = "loop" /\ statusCh = "open"

\* mqttClient.Disconnect(250)
Disconnect == Effect("disconnect", 0, "", 0, FALSE, "")

\* PublishAvailability calls among the effects of a call: what the availability
\* topic of each device was last sent, given what it was sent before
RECURSIVE Published(_, _)
Published(before, effs) ==
  IF effs = <<>> THEN before
  ELSE LET e == Head(effs) IN
       Published(IF e.kind = "availability" THEN [before EXCEPT ![e.dev] = e.payload]
                 ELSE before, Tail(effs))

\* goroutines that call Trigger while the bridge runs: "H", the bus client's callback
\* (handleCommand), and "M", main's status loop
Triggerers == {"H", "M"}

\* DeviceFSM.Trigger: the FSM's lock is taken before the event is looked at
LockFree_Always(holder) == TRUE
LockFree(holder) == holder = NoProc

\* a Trigger call: where it stands, its device and event, its number, the state
\* its transition produced and what its entry callback has still to do
TriggerCall(pc_, d, event, n, state, todo) ==
  [pc |-> pc_, dev |-> d, event |-> event, n |-> n, state |-> state, todo |-> todo]
NoTrigger == TriggerCall("idle", 0, "", 0, "", <<>>)

\* one entry of the history: call n of goroutine g, which found the FSM in
\* `before` and put it into `state`, did `effect` while Current() was `seen`
Entry(g, call, before, seen, effect, contended) ==
  [by |-> g, n |-> call.n, dev |-> call.dev, event |-> call.event, before |-> before,
   state |-> call.state, seen |-> seen, effect |-> effect, contended |-> contended]

\* the decoded body of a reply, as far as RPC looks at it: is it JSON that fits
\* {code:int, description:string}, its code, and does it fit the type of rpc.Output
Body(json, code, fits) == [json |-> json, code |-> code, fits |-> fits]
NoBytes == Body(FALSE, 0, FALSE)
Bodies == {Body(FALSE, 0, FALSE), Body(TRUE, 0, TRUE), Body(TRUE, 0, FALSE), Body(TRUE, 7, TRUE)}
Unwritten == "unwritten"

\* rpc.Output of the two calls: A passes one (as SafeFetchStatus), B passes nil (as SafeCommand)
HasOutput(r) == r = "A"

\* RPC line 464: if output.Code != 0
CodeFails_Never(code) == FALSE
CodeFails(code) == code # 0

\* RPC lines 453-475: what the call returns for the reply body b
RPCResult(r, b) ==
  IF ~b.json THEN "decode"
  ELSE IF CodeFails(b.code) THEN "code"
  ELSE IF HasOutput(r) /\ ~b.fits THEN "unmarshal"
  ELSE "ok"

\* RPC lines 472-474: json.Unmarshal(responseBytes, rpc.Output), reached only
\* past the code check
OutputAfter(r, b, old) ==
  IF RPCResult(r, b) \in {"decode", "code"} \/ ~HasOutput(r) THEN old
  ELSE IF b.fits THEN "written" ELSE "partial"

\* RPC lines 442-475 once the reply message m is at hand
RPCDecode(r, m) ==
  \E b \in Bodies :
    /\ reply' = [reply EXCEPT ![r] = m]
    /\ responseBytes' = [responseBytes EXCEPT ![r] = b]
    /\ result' = [result EXCEPT ![r] = RPCResult(r, b)]
    /\ output' = [output EXCEPT ![r] = OutputAfter(r, b, @)]

\* ------------------------------------------------------ command selection
\* AvailableCommands, the codes GetCommandForPosition chooses from
AvailableCommands ==
  [Close |-> 4, Open |-> 2,
   OpenPercent05 |-> 32, OpenPercent10 |-> 33, OpenPercent15 |-> 34, OpenPercent20 |-> 35,
   OpenPercent25 |-> 36, OpenPercent30 |-> 37, OpenPercent35 |-> 38, OpenPercent40 |-> 39,
   OpenPercent45 |-> 40, OpenPercent50 |-> 41, OpenPercent55 |-> 42, OpenPercent60 |-> 43,
   OpenPercent65 |-> 44, OpenPercent70 |-> 45, OpenPercent75 |-> 46, OpenPercent80 |-> 47,
   OpenPercent85 |-> 48, OpenPercent90 |-> 49, OpenPercent95 |-> 50]
NoCommand == -1                    \* GetCommandForPosition has not run

\* GetCommandForPosition lines 103-108: clamp the position to 0..100
Clamp(p) == IF p < 0 THEN 0 ELSE IF p > 100 THEN 100 ELSE p

\* GetCommandForPosition lines 110-153: the switch on the clamped position
GetCommandForPosition_Strict(p) ==
  LET pos == Clamp(p) IN
  CASE pos = 0 -> AvailableCommands.Close
    [] pos < 5 -> AvailableCommands.OpenPercent05
    [] pos < 10 -> AvailableCommands.OpenPercent10
    [] pos < 15 -> AvailableCommands.OpenPercent15
    [] pos < 20 -> AvailableCommands.OpenPercent20
    [] pos < 25 -> AvailableCommands.OpenPercent25
    [] pos < 30 -> AvailableCommands.OpenPercent30
    [] pos < 35 -> AvailableCommands.OpenPercent35
    [] pos < 40 -> AvailableCommands.OpenPercent40
    [] pos < 45 -> AvailableCommands.OpenPercent45
    [] pos < 50 -> AvailableCommands.OpenPercent50
    [] pos < 55 -> AvailableCommands.OpenPercent55
    [] pos < 60 -> AvailableCommands.OpenPercent60
    [] pos < 65 -> AvailableCommands.OpenPercent65
    [] pos < 70 -> AvailableCommands.OpenPercent70
    [] pos < 75 -> AvailableCommands.OpenPercent75
    [] pos < 80 -> AvailableCommands.OpenPercent80
    [] pos < 85 -> AvailableCommands.OpenPercent85
    [] pos < 90 -> AvailableCommands.OpenPercent90
    [] pos < 95 -> AvailableCommands.OpenPercent95
    [] OTHER -> AvailableCommands.Open
GetCommandForPosition(p) ==
  LET pos == Clamp(p) IN
  IF pos = 0 THEN AvailableCommands.Close
  ELSE IF pos <= 5 THEN AvailableCommands.OpenPercent05
  ELSE IF pos <= 10 THEN AvailableCommands.OpenPercent10
  ELSE IF pos <= 15 THEN AvailableCommands.OpenPercent15
  ELSE IF pos <= 20 THEN AvailableCommands.OpenPercent20
  ELSE IF pos <= 25 THEN AvailableCommands.OpenPercent25
  ELSE IF pos <= 30 THEN AvailableCommands.OpenPercent30
  ELSE IF pos <= 35 THEN AvailableCommands.OpenPercent35
  ELSE IF pos <= 40 THEN AvailableCommands.OpenPercent40
  ELSE IF pos <= 45 THEN AvailableCommands.OpenPercent45
  ELSE IF pos <= 50 THEN AvailableCommands.OpenPercent50
  ELSE IF pos <= 55 THEN AvailableCommands.OpenPercent55
  ELSE IF pos <= 60 THEN AvailableCommands.OpenPercent60
  ELSE IF pos <= 65 THEN AvailableCommands.OpenPercent65
  ELSE IF pos <= 70 THEN AvailableCommands.OpenPercent70
  ELSE IF pos <= 75 THEN AvailableCommands.OpenPercent75
  ELSE IF pos <= 80 THEN AvailableCommands.OpenPercent80
  ELSE IF pos <= 85 THEN AvailableCommands.OpenPercent85
  ELSE IF pos <= 90 THEN AvailableCommands.OpenPercent90
  ELSE IF pos <= 95 THEN AvailableCommands.OpenPercent95
  ELSE AvailableCommands.Open

\* ------------------------------------------------------------- AES-CBC
BlockSize == 16                    \* c.block.BlockSize() of an AES cipher
Bytes == 0..255
Keys == {3, 200}                   \* keys handed to NewEncCipher and NewDecCipher
Times == {1, 2}                    \* time values handed to them
PlainBytes == {0, 1, 16, 255}      \* byte values the plaintexts are made of
Unset == <<-1>>                    \* no byte string yet
Panic == <<-2>>                    \* the call panicked

\* NewEncCipher line 38: the first byte-wise chaining value, from the IV md5(t)
ivByte(t) == (89 * t + 41) % 256

\* cipher.NewCBCEncrypter(block, iv).CryptBlocks: each byte is combined with the
\* byte one block before it in the output (the IV for the first block) and put
\* through the keyed block transform; whole blocks only
EncryptBlocks(key, t, content) ==
  LET c[i \in 1..Len(content)] ==
        (content[i] + key + (IF i <= BlockSize THEN ivByte(t) ELSE c[i - BlockSize])) % 256 IN
  IF Len(content) % BlockSize # 0 THEN Panic
  ELSE [i \in 1..Len(content) |-> c[i]]

\* cipher.NewCBCDecrypter(block, iv).CryptBlocks, its inverse
DecryptBlocks(key, t, content) ==
  IF Len(content) % BlockSize # 0 THEN Panic
  ELSE [i \in 1..Len(content) |->
          (content[i] + 512 - key
             - (IF i <= BlockSize THEN ivByte(t) ELSE content[i - BlockSize])) % 256]

\* PKCS5Padding: pad with the length of the padding
PKCS5Padding_NoneWhenAligned(ciphertext, blockSize) ==
  LET padding == (blockSize - (Len(ciphertext) % blockSize)) % blockSize IN
  ciphertext \o [i \in 1..padding |-> padding]
PKCS5Padding(ciphertext, blockSize) ==
  LET padding == blockSize - (Len(ciphertext) % blockSize) IN
  ciphertext \o [i \in 1..padding |-> padding]

\* PKCS5Trimming: a last byte that cannot be a padding length leaves the input
\* as it is; an empty input is an index out of range
PKCS5Trimming(encrypt) ==
  IF encrypt = <<>> THEN Panic
  ELSE LET padding == encrypt[Len(encrypt)] IN
       IF padding > Len(encrypt) \/ padding <= 0 THEN encrypt
       ELSE SubSeq(encrypt, 1, Len(encrypt) - padding)

\* cbcEncCipher.Encrypt on a cipher fresh from NewEncCipher(key, t), and
\* cbcDecCipher.Decrypt on one fresh from NewDecCipher(key, t)
EncryptBytes(key, t, plain) == EncryptBlocks(key, t, PKCS5Padding(plain, BlockSize))
Decrypt(key, t, cipherBytes) == PKCS5Trimming(DecryptBlocks(key, t, cipherBytes))
Crypted(key, t, bytes) == [key |-> key, t |-> t, bytes |-> bytes]
NoCrypted == Crypted(0, 0, Unset)

Failed == <<-3>>                   \* the call returned an error

\* dataPayload.readData: an unencrypted payload is returned as it is, bad base64
\* is an error, anything else goes through Decrypt
readData(p) ==
  IF ~p.IsEncrypted THEN p.bytes
  ELSE IF ~p.valid THEN Failed
  ELSE Decrypt(p.key, p.Time, p.bytes)

\* ------------------------------------------------------------------ Init
InitState ==
  /\ clock = InitClock
  /\ nextAccess = InitNextAccess
  /\ sequenceIDSuffix = 0
  /\ genericRequestMutex = NoProc
  /\ unresolvedRPC = {}
  /\ chanBuf = [p \in PIDs |-> <<>>]
  /\ pendingMessages = <<>>
  /\ pc = [g \in Procs |-> "idle"]
  /\ greq = [g \in Procs |-> NoReq]
  /\ msgs = [g \in Procs |-> <<>>]
  /\ gresp = [g \in Procs |-> NoResp]
  /\ prev = [g \in Procs |-> EmptyPID]
  /\ pid = [g \in Callers |-> EmptyPID]
  /\ ticks = [g \in Callers |-> 0]
  /\ calls = [g \in Callers |-> 0]
  /\ waited = [g \in Callers |-> <<>>]
  /\ timerFired = [g \in Callers |-> FALSE]
  /\ out = <<>>
  /\ result = [g \in Callers |-> "none"]
  /\ reply = [g \in Callers |-> NoMsg]
  /\ responseBytes = [g \in Callers |-> NoBytes]
  /\ output = [g \in Callers |-> Unwritten]
  /\ srvReceived = {}
  /\ srvEmitted = [p \in PIDs |-> 0]
  /\ srvStatus = 0
  /\ requests = <<>>
  /\ sendCount = [p \in PIDs |-> 0]
  /\ appendCount = [n \in 1..MaxStatus |-> 0]
  /\ received = {}
  /\ returned = <<>>
  /\ current = [d \in Devices |-> Absent]
  /\ running = TRUE
  /\ statusLoop = Range
  /\ poller = "fetch"
  /\ statusCh = "open"
  /\ cancelled = FALSE
  /\ lastCall = NoCall
  /\ effects = <<>>
  /\ lastAvailability = [d \in Devices |-> ""]
  /\ eventMu = [d \in Devices |-> NoProc]
  /\ trigger = [g \in Triggerers |-> NoTrigger]
  /\ triggers = 0
  /\ entryLog = <<>>

\* no call of GetCommandForPosition or Encrypt is under way
IdlePure ==
  /\ askedPosition = 0 /\ chosenCommand = NoCommand
  /\ plaintext = <<>> /\ crypted = NoCrypted /\ decrypted = Unset /\ dp = Unset

\* two RPC calls in flight, their waiters doing the polling
Init == active = Callers /\ InitState /\ IdlePure

\* one RPC call next to the status loop
InitLoop == active = {"A", Loop} /\ InitState /\ IdlePure

\* -------------------------------------------------------------- actions
IsPoll(g) == greq[g].Path = MessagesPath

\* what the basestation may put into one response
Descr(rcv) == {[pid |-> EmptyPID, st |-> NilState]}
              \cup {[pid |-> p, st |-> st] : p \in rcv, st \in ProcessStates}
CountOf(ds, id) == Cardinality({i \in 1..Len(ds) : ds[i].pid = id})
Emitted(id) == IF id = EmptyPID THEN srvStatus ELSE srvEmitted[id]
Responses(rcv) ==
  {ds \in UNION {[1..n -> Descr(rcv)] : n \in 0..MaxRespLen} :
      /\ srvStatus + CountOf(ds, EmptyPID) <= MaxStatus
      /\ \A p \in rcv : srvEmitted[p] + CountOf(ds, p) <= MaxPerPid}

\* genericRequest / internalMessages gave up with an error: the deferred unlock
\* runs and the error travels up to the caller of RPC or of Messages
Fail(g) ==
  /\ genericRequestMutex' = NoProc
  /\ IF g \in Callers
       THEN /\ pc' = [pc EXCEPT ![g] = "done"]
            /\ result' = [result EXCEPT ![g] = "error"]
       ELSE /\ pc' = [pc EXCEPT ![g] = "stopped"]
            /\ UNCHANGED result
  /\ gresp' = [gresp EXCEPT ![g] = NoResp]

\* Conn.signedRequest, run by g while it holds genericRequestMutex
Sign(g, conf) ==
    LET before == clock
        after == SleepUntil(before, nextAccess)
        t == RequestTime(before, after, nextAccess)
        now == after
        suffix == NextSuffix(sequenceIDSuffix)
        env == signedRequest(t, NextAccessAfter(now), suffix, conf)
    IN /\ clock' = now
       /\ nextAccess' = NextAccessAfter(now)
       /\ sequenceIDSuffix' = suffix
       /\ requests' = Append(requests, env)
       /\ greq' = [greq EXCEPT ![g] = env]

\* dc.SimpleRequest inside genericRequest: the HTTP round trip of the request just signed
SimpleRequest(g) ==
  LET rcv == IF greq'[g].Path = MessagesPath THEN srvReceived
             ELSE srvReceived \cup {greq'[g].ProcessID} IN
  /\ srvReceived' = rcv
  /\ \/ \E ds \in Responses(rcv), errText \in {"", "err"} :
         LET ms == [i \in 1..Len(ds) |->
                      Message(ds[i].pid, ds[i].st,
                              Emitted(ds[i].pid) + CountOf(SubSeq(ds, 1, i), ds[i].pid))] IN
         /\ srvStatus' = srvStatus + CountOf(ds, EmptyPID)
         /\ srvEmitted' = [p \in PIDs |-> srvEmitted[p] + CountOf(ds, p)]
         /\ received' = received \cup
              {ms[i].Sequence : i \in {j \in 1..Len(ms) : ms[j].ProcessID = EmptyPID}}
         /\ gresp' = [gresp EXCEPT ![g] =
                        [messages |-> ms, Message |-> errText, inlineResponse |-> NoMsg]]
         /\ msgs' = [msgs EXCEPT ![g] = ms]
         /\ pc' = [pc EXCEPT ![g] = "proc"]
         /\ genericRequestMutex' = g
         /\ UNCHANGED result
     \/ /\ Fail(g)      \* transport error, non-2xx status or undecodable body
        /\ UNCHANGED <<srvStatus, srvEmitted, received, msgs>>

\* Conn.RPC lines 427-435: lock the send mutex, sign, send
RPCSend(r) ==
  /\ r \in active
  /\ pc[r] = "idle"
  /\ genericRequestMutex = NoProc
  /\ sequenceIDSuffix < MaxSeq
  /\ Sign(r, [data |-> "in", path |-> ActionPath, requestIfOnline |-> TRUE])
  /\ pid' = [pid EXCEPT ![r] = greq'[r].ProcessID]
  /\ SimpleRequest(r)
  /\ UNCHANGED <<active, unresolvedRPC, chanBuf, pendingMessages, prev, ticks, calls, waited,
                 timerFired, out, reply, sendCount, appendCount, returned>>
  /\ UNCHANGED rpcVars
  /\ UNCHANGED <<bridgeVars, pureVars, triggerVars>>

\* Conn.internalMessages lines 348-355: lock the send mutex, sign the poll, send
InternalMessagesPoll(g) ==
  /\ pc[g] = "plock"
  /\ genericRequestMutex = NoProc
  /\ sequenceIDSuffix < MaxSeq
  /\ Sign(g, [data |-> "", path |-> MessagesPath, requestIfOnline |-> FALSE])
  /\ SimpleRequest(g)
  /\ UNCHANGED <<active, unresolvedRPC, chanBuf, pendingMessages, waitVars, out,
                 reply, sendCount, appendCount, returned>>
  /\ UNCHANGED rpcVars
  /\ UNCHANGED <<bridgeVars, pureVars, triggerVars>>

\* delete(dc.unresolvedRPC, message.ProcessID)
DeleteEntry_Keep(table, p) == table
DeleteEntry(table, p) == table \ {p}

\* the deferred genericRequestMutex.Unlock() of RPC's inner function
UnlockOnReturn_Held(holder) == holder
UnlockOnReturn(holder) == NoProc

\* genericRequest lines 201-210: which waiter, if any, gets a message of another processID
Lookup_Any(table, id) == IF table # {} THEN {CHOOSE p \in table : TRUE} ELSE {}
Lookup(table, id) == IF id \in table THEN {id} ELSE {}

\* genericRequest lines 173-213: one iteration of the loop over the response's messages
GenericRequestLoop(g) ==
  /\ pc[g] = "proc"
  /\ msgs[g] # <<>>
  /\ LET m == Head(msgs[g]) IN
     IF m.ProcessID = EmptyPID
       THEN /\ pendingMessages' = Append(pendingMessages, m)
            /\ appendCount' = [appendCount EXCEPT ![m.Sequence] = @ + 1]
            /\ msgs' = [msgs EXCEPT ![g] = Tail(@)]
            /\ UNCHANGED <<unresolvedRPC, gresp, pc, prev>>
     ELSE IF greq[g].ProcessID = m.ProcessID
       THEN /\ gresp' = [gresp EXCEPT ![g].inlineResponse =
                           IF IsFinal(m) THEN m ELSE @]
            /\ msgs' = [msgs EXCEPT ![g] = Tail(@)]
            /\ UNCHANGED <<unresolvedRPC, pendingMessages, appendCount, pc, prev>>
     ELSE IF Lookup(unresolvedRPC, m.ProcessID) # {}
       THEN /\ unresolvedRPC' = DeleteEntry(unresolvedRPC, m.ProcessID)
            /\ prev' = [prev EXCEPT ![g] =
                          CHOOSE p \in Lookup(unresolvedRPC, m.ProcessID) : TRUE]
            /\ pc' = [pc EXCEPT ![g] = "gsend"]
            /\ UNCHANGED <<pendingMessages, appendCount, gresp, msgs>>
     ELSE /\ msgs' = [msgs EXCEPT ![g] = Tail(@)]     \* dropping unknown response
          /\ UNCHANGED <<unresolvedRPC, pendingMessages, appendCount, gresp, pc, prev>>
  /\ UNCHANGED <<clock, connVars, genericRequestMutex, chanBuf, greq, pid, ticks, calls, waited,
                 timerFired, out,
                 result, reply, srvVars, requests, sendCount, received, returned>>
  /\ UNCHANGED rpcVars
  /\ UNCHANGED <<bridgeVars, pureVars, triggerVars>>

\* genericRequest line 207: prev <- message, after unresolvedMutex was released
GenericRequestSend(g) ==
  /\ pc[g] = "gsend"
  /\ Len(chanBuf[prev[g]]) < ChanCap            \* a send on a full channel blocks
  /\ chanBuf' = [chanBuf EXCEPT ![prev[g]] = Append(@, Head(msgs[g]))]
  /\ sendCount' = [sendCount EXCEPT ![prev[g]] = @ + 1]
  /\ msgs' = [msgs EXCEPT ![g] = Tail(@)]
  /\ prev' = [prev EXCEPT ![g] = EmptyPID]
  /\ pc' = [pc EXCEPT ![g] = "proc"]
  /\ UNCHANGED <<clock, connVars, genericRequestMutex, unresolvedRPC, pendingMessages,
                 greq, gresp, pid, ticks, calls, waited, timerFired, out, result, reply, srvVars,
                 requests, appendCount, received, returned>>
  /\ UNCHANGED rpcVars
  /\ UNCHANGED <<bridgeVars, pureVars, triggerVars>>

\* genericRequest lines 215-220, and what its caller does with the outcome:
\* RPC's inner function returns (deferred unlock); internalMessages goes on to its own loop
GenericRequestReturn(g) ==
  /\ pc[g] = "proc"
  /\ msgs[g] = <<>>
  /\ IF gresp[g].Message # ""
       THEN Fail(g) /\ UNCHANGED msgs
     ELSE IF IsPoll(g)
       THEN /\ pc' = [pc EXCEPT ![g] = "loop2"]
            /\ msgs' = [msgs EXCEPT ![g] = gresp[g].messages]   \* gresp.Messages() again
            /\ gresp' = [gresp EXCEPT ![g] = NoResp]
            /\ UNCHANGED <<genericRequestMutex, result>>
     ELSE /\ pc' = [pc EXCEPT ![g] = "sent"]
          /\ genericRequestMutex' = UnlockOnReturn(g)
          /\ UNCHANGED <<gresp, msgs, result>>
  /\ UNCHANGED <<clock, connVars, unresolvedRPC, chanBuf, pendingMessages, greq,
                 waitVars, out, reply, srvVars, histVars>>
  /\ UNCHANGED rpcVars
  /\ UNCHANGED <<bridgeVars, pureVars, triggerVars>>

\* internalMessages lines 377-383: does the poll hand this message to a waiter
Deliverable(table, m) == m.ProcessID \in table

\* internalMessages lines 367-387: one iteration of its loop over the same messages
InternalMessagesLoop(g) ==
  /\ pc[g] = "loop2"
  /\ msgs[g] # <<>>
  /\ LET m == Head(msgs[g]) IN
     IF m.ProcessID # EmptyPID
       THEN IF Deliverable(unresolvedRPC, m)
              THEN /\ Len(chanBuf[m.ProcessID]) < ChanCap    \* ch <- message
                   /\ chanBuf' = [chanBuf EXCEPT ![m.ProcessID] = Append(@, m)]
                   /\ sendCount' = [sendCount EXCEPT ![m.ProcessID] = @ + 1]
                   /\ unresolvedRPC' = DeleteEntry(unresolvedRPC, m.ProcessID)
                   /\ UNCHANGED <<pendingMessages, appendCount>>
              ELSE UNCHANGED <<chanBuf, sendCount, unresolvedRPC, pendingMessages,
                               appendCount>>
       ELSE /\ pendingMessages' = Append(pendingMessages, m)
            /\ appendCount' = [appendCount EXCEPT ![m.Sequence] = @ + 1]
            /\ UNCHANGED <<chanBuf, sendCount, unresolvedRPC>>
  /\ msgs' = [msgs EXCEPT ![g] = Tail(@)]
  /\ UNCHANGED <<clock, connVars, genericRequestMutex, pc, greq, gresp, waitVars, out,
                 result, reply, srvVars, requests, received, returned>>
  /\ UNCHANGED rpcVars
  /\ UNCHANGED <<bridgeVars, pureVars, triggerVars>>

\* internalMessages returns nil (deferred unlock): waitForPid lines 511-512, or back in Messages
InternalMessagesReturn(g) ==
  /\ pc[g] = "loop2"
  /\ msgs[g] = <<>>
  /\ genericRequestMutex' = NoProc
  /\ IF g \in Callers
       THEN /\ calls' = [calls EXCEPT ![g] = @ + 1]
            /\ ticks' = [ticks EXCEPT ![g] = calls[g] + 1]
            /\ waited' = [waited EXCEPT ![g] = Append(@, 0)]
            /\ pc' = [pc EXCEPT ![g] = "wait"]
       ELSE /\ pc' = [pc EXCEPT ![g] = "take"]
            /\ UNCHANGED <<ticks, calls, waited>>
  /\ UNCHANGED <<clock, connVars, unresolvedRPC, chanBuf, pendingMessages, greq, msgs,
                 gresp, prev, pid, timerFired, out, result, reply, srvVars, histVars>>
  /\ UNCHANGED rpcVars
  /\ UNCHANGED <<bridgeVars, pureVars, triggerVars>>

\* RPC lines 442-451 and waitForPid lines 480-493: use the inline response, or
\* make the channel, enter it in the table and arm the timers
RPCAfterSend(r) ==
  /\ pc[r] = "sent"
  /\ IF gresp[r].inlineResponse # NoMsg
       THEN /\ RPCDecode(r, gresp[r].inlineResponse)
            /\ pc' = [pc EXCEPT ![r] = "done"]
            /\ UNCHANGED <<unresolvedRPC, ticks, calls, waited, timerFired>>
       ELSE /\ unresolvedRPC' = unresolvedRPC \cup {pid[r]}
            /\ ticks' = [ticks EXCEPT ![r] = InitialTicks]
            /\ waited' = [waited EXCEPT ![r] = <<0>>]
            /\ calls' = [calls EXCEPT ![r] = 0]
            /\ timerFired' = [timerFired EXCEPT ![r] = FALSE]
            /\ pc' = [pc EXCEPT ![r] = "wait"]
            /\ UNCHANGED <<reply, result, rpcVars>>
  /\ gresp' = [gresp EXCEPT ![r] = NoResp]
  /\ UNCHANGED <<clock, connVars, genericRequestMutex, chanBuf, pendingMessages, greq,
                 msgs, prev, pid, out, srvVars, histVars>>
  /\ UNCHANGED <<bridgeVars, pureVars, triggerVars>>

\* waitForPid, case m := <-ch
WaitReceive(r) ==
  /\ pc[r] = "wait"
  /\ chanBuf[pid[r]] # <<>>
  /\ RPCDecode(r, Head(chanBuf[pid[r]]))
  /\ chanBuf' = [chanBuf EXCEPT ![pid[r]] = Tail(@)]
  /\ pc' = [pc EXCEPT ![r] = "done"]
  /\ ticks' = [ticks EXCEPT ![r] = 0]
  /\ waited' = [waited EXCEPT ![r] = <<>>]
  /\ calls' = [calls EXCEPT ![r] = 0]
  /\ timerFired' = [timerFired EXCEPT ![r] = FALSE]
  /\ UNCHANGED <<clock, connVars, genericRequestMutex, unresolvedRPC, pendingMessages,
                 greq, msgs, gresp, prev, pid, out, srvVars, histVars>>
  /\ UNCHANGED <<bridgeVars, pureVars, triggerVars>>

\* waitForPid, case <-tick.C
WaitTick(r) ==
  /\ pc[r] = "wait"
  /\ ticks' = [ticks EXCEPT ![r] = @ - 1]
  /\ waited' = [waited EXCEPT ![r] = [@ EXCEPT ![Len(@)] = @ + 1]]
  /\ pc' = [pc EXCEPT ![r] = IF ticks[r] - 1 > 0 THEN "wait" ELSE "plock"]
  /\ UNCHANGED <<clock, connVars, genericRequestMutex, unresolvedRPC, chanBuf,
                 pendingMessages, greq, msgs, gresp, prev, pid, calls, timerFired, out,
                 result, reply, srvVars, histVars>>
  /\ UNCHANGED rpcVars
  /\ UNCHANGED <<bridgeVars, pureVars, triggerVars>>

\* is timeout.C of the waiter ready
TimeoutReady_Shared(fired, r) == \E c \in Callers : fired[c]
TimeoutReady(fired, r) == fired[r]

\* waitForPid, case <-timeout.C
WaitTimeout(r) ==
  /\ pc[r] = "wait"
  /\ TimeoutReady(timerFired, r)
  /\ result' = [result EXCEPT ![r] = "timeout"]
  /\ pc' = [pc EXCEPT ![r] = "done"]
  /\ ticks' = [ticks EXCEPT ![r] = 0]
  /\ waited' = [waited EXCEPT ![r] = <<>>]
  /\ calls' = [calls EXCEPT ![r] = 0]
  /\ timerFired' = [timerFired EXCEPT ![r] = FALSE]
  /\ UNCHANGED <<clock, connVars, genericRequestMutex, unresolvedRPC, chanBuf,
                 pendingMessages, greq, msgs, gresp, prev, pid, out, reply, srvVars,
                 histVars>>
  /\ UNCHANGED rpcVars
  /\ UNCHANGED <<bridgeVars, pureVars, triggerVars>>

\* Conn.Messages line 394
MessagesCheck ==
  /\ Loop \in active
  /\ pc[Loop] = "idle"
  /\ pc' = [pc EXCEPT ![Loop] = IF Len(pendingMessages) = 0 THEN "plock" ELSE "take"]
  /\ UNCHANGED <<clock, connVars, genericRequestMutex, unresolvedRPC, chanBuf,
                 pendingMessages, greq, msgs, gresp, waitVars, out, result, reply,
                 srvVars, histVars>>
  /\ UNCHANGED rpcVars
  /\ UNCHANGED <<bridgeVars, pureVars, triggerVars>>

\* Conn.Messages line 400: out := dc.pendingMessages
MessagesRead ==
  /\ pc[Loop] = "take"
  /\ out' = pendingMessages
  /\ pc' = [pc EXCEPT ![Loop] = "clear"]
  /\ UNCHANGED <<clock, connVars, genericRequestMutex, unresolvedRPC, chanBuf,
                 pendingMessages, greq, msgs, gresp, waitVars, result, reply,
                 srvVars, histVars>>
  /\ UNCHANGED rpcVars
  /\ UNCHANGED <<bridgeVars, pureVars, triggerVars>>

\* Conn.Messages lines 401-402: dc.pendingMessages = nil; return out
MessagesClear ==
  /\ pc[Loop] = "clear"
  /\ pendingMessages' = <<>>
  /\ returned' = returned \o out
  /\ out' = <<>>
  /\ pc' = [pc EXCEPT ![Loop] = "idle"]
  /\ UNCHANGED <<clock, connVars, genericRequestMutex, unresolvedRPC, chanBuf,
                 greq, msgs, gresp, waitVars, result, reply, srvVars, requests,
                 sendCount, appendCount, received>>
  /\ UNCHANGED rpcVars
  /\ UNCHANGED <<bridgeVars, pureVars, triggerVars>>

\* 20 seconds after waitForPid armed it, the timeout timer of r fires
TimerFires(r) ==
  /\ pc[r] = "wait"
  /\ ~timerFired[r]
  /\ timerFired' = [timerFired EXCEPT ![r] = TRUE]
  /\ UNCHANGED <<clock, connVars, genericRequestMutex, unresolvedRPC, chanBuf,
                 pendingMessages, pc, greq, msgs, gresp, prev, pid, ticks, calls, waited, out,
                 result, reply, srvVars, histVars>>
  /\ UNCHANGED rpcVars
  /\ UNCHANGED <<bridgeVars, pureVars, triggerVars>>

Next ==
  \/ \E r \in Callers : RPCSend(r)
  \/ \E g \in Procs : InternalMessagesPoll(g)
  \/ \E g \in Procs : GenericRequestLoop(g)
  \/ \E g \in Procs : GenericRequestSend(g)
  \/ \E g \in Procs : GenericRequestReturn(g)
  \/ \E g \in Procs : InternalMessagesLoop(g)
  \/ \E g \in Procs : InternalMessagesReturn(g)
  \/ \E r \in Callers : RPCAfterSend(r)
  \/ \E r \in Callers : WaitReceive(r)
  \/ \E r \in Callers : WaitTick(r)
  \/ \E r \in Callers : WaitTimeout(r)
  \/ \E r \in Callers : TimerFires(r)

NextLoop ==
  \/ Next
  \/ MessagesCheck
  \/ MessagesRead
  \/ MessagesClear

Spec == Init /\ [][Next]_vars
SpecLoop == InitLoop /\ [][NextLoop]_vars

\* the steps of one goroutine running Conn.RPC
StepOf(r) ==
  \/ RPCSend(r) \/ InternalMessagesPoll(r) \/ GenericRequestLoop(r) \/ GenericRequestSend(r)
  \/ GenericRequestReturn(r) \/ InternalMessagesLoop(r) \/ InternalMessagesReturn(r)
  \/ RPCAfterSend(r) \/ WaitReceive(r) \/ WaitTick(r) \/ WaitTimeout(r) \/ TimerFires(r)

\* the Go scheduler runs every goroutine that can go on, each HTTP request
\* completes, and a timer that has been armed fires
Fairness == \A r \in Callers : WF_vars(StepOf(r))
SpecLive == Init /\ [][Next]_vars /\ Fairness

\* --------------------------------------------------------- bridge actions
\* the bridge right after start-up: session connected, no device seen yet, the
\* status goroutine started, main about to range over the status channel
InitBridge == active = {} /\ InitState /\ IdlePure

\* subscribeToMQTTCommandTopics callback and handleCommand: a payload arrives on
\* the command topic of device d
HandleCommand(d, payload) ==
  /\ running
  /\ LET command == ToUpper(payload)
         event == CommandEvent(command) IN
     \E o \in Outcomes(current[d], event) :
       LET t == Trigger(d, current[d], event, o[1], o[2]) IN
       IF ~Exists(d)
         THEN /\ lastCall' = Call("command", d, payload, -1, "", FALSE, Absent,
                                  "Device does not exist")
              /\ effects' = <<>>
              /\ UNCHANGED <<current, running>>
       ELSE IF event = ""
         THEN /\ lastCall' = Call("command", d, payload, -1, "", FALSE, current[d],
                                  "Unknown command")
              /\ effects' = <<>>
              /\ UNCHANGED <<current, running>>
       ELSE /\ current' = [current EXCEPT ![d] = t.state]
            /\ effects' = t.effects
            /\ running' = (t.alive /\ SurvivesTrigger(t.err))
            /\ lastCall' = Call("command", d, payload, -1, event, TRUE, current[d], t.err)
  /\ lastAvailability' = Published(lastAvailability, effects')
  /\ UNCHANGED <<statusLoop, poller, statusCh, cancelled, sessionVars, pureVars, triggerVars>>

\* main, status loop, a snapshot names device d for which GetDeviceFSM finds no
\* FSM: ConfigureDevice publishes the discovery document and registers a new
\* FSM, which starts in "initial"
ConfigureDevice(d, position) ==
  /\ running
  /\ statusLoop = Range /\ Feeding
  /\ ~Exists(d)
  /\ \E cfgOk \in BOOLEAN :
       /\ effects' = <<publishToMQTT(d, "config", FALSE, "config", cfgOk)>>
       /\ IF cfgOk
            THEN /\ current' = [current EXCEPT ![d] = InitialState]
                 /\ statusLoop' = At("online", d, position, "")
                 /\ lastCall' = Call("configure", d, "", position, "", FALSE, current[d], "")
                 /\ UNCHANGED running
            ELSE \* logger.Fatal("Couldn't publish config")
                 /\ running' = FALSE
                 /\ lastCall' = Call("configure", d, "", position, "", FALSE, current[d],
                                     "Couldn't publish config")
                 /\ UNCHANGED <<current, statusLoop>>
  /\ lastAvailability' = Published(lastAvailability, effects')
  /\ UNCHANGED <<poller, statusCh, cancelled, sessionVars, pureVars, triggerVars>>

\* main, status loop, lines 136-143: go_online on the FSM just configured
StatusOnline ==
  /\ running
  /\ statusLoop.pc = "online"
  /\ LET d == statusLoop.dev IN
     \E o \in Outcomes(current[d], "go_online") :
       LET t == Trigger(d, current[d], "go_online", o[1], o[2]) IN
       /\ current' = [current EXCEPT ![d] = t.state]
       /\ effects' = t.effects
       /\ running' = (t.alive /\ SurvivesTrigger(t.err))
       /\ lastCall' = Call("online", d, "", statusLoop.pos, "go_online", TRUE, current[d],
                           t.err)
  /\ statusLoop' = [statusLoop EXCEPT !.pc = "switch"]
  /\ lastAvailability' = Published(lastAvailability, effects')
  /\ UNCHANGED <<poller, statusCh, cancelled, sessionVars, pureVars, triggerVars>>

\* main, status loop, lines 148-180 for one device of a snapshot: select the
\* target from the reported position, read Current() and decide whether to
\* trigger
StatusDevice(d, position) ==
  /\ running
  /\ \/ statusLoop = Range /\ Feeding /\ Exists(d)
     \/ statusLoop = At("switch", d, position, "")
  /\ LET haState == DriverEvent(position)
         currentState == current[d] IN
     /\ statusLoop' = IF haState = "" \/ Elided(currentState, haState)
                        THEN Range
                        ELSE At("trigger", d, position, haState)
     /\ lastCall' = Call("status", d, "", position, haState, FALSE, currentState, "")
  /\ effects' = <<>>
  /\ lastAvailability' = Published(lastAvailability, effects')
  /\ UNCHANGED <<current, running, poller, statusCh, cancelled, sessionVars, pureVars, triggerVars>>

\* main, status loop, lines 183-190: deviceFSM.Trigger(ctx, haState)
StatusTrigger ==
  /\ running
  /\ statusLoop.pc = "trigger"
  /\ LET d == statusLoop.dev
         haState == statusLoop.haState IN
     \E o \in Outcomes(current[d], haState) :
       LET t == Trigger(d, current[d], haState, o[1], o[2]) IN
       /\ current' = [current EXCEPT ![d] = t.state]
       /\ effects' = t.effects
       /\ running' = (t.alive /\ SurvivesTrigger(t.err))
       /\ lastCall' = Call("drive", d, "", statusLoop.pos, haState, TRUE, current[d], t.err)
  /\ statusLoop' = Range
  /\ lastAvailability' = Published(lastAvailability, effects')
  /\ UNCHANGED <<poller, statusCh, cancelled, sessionVars, pureVars, triggerVars>>

\* any holder of DeviceFSM.FSM triggers an event on the FSM of device d
FSMEvent(d, event) ==
  /\ running
  /\ Exists(d)
  /\ \E o \in Outcomes(current[d], event) :
       LET t == Trigger(d, current[d], event, o[1], o[2]) IN
       /\ current' = [current EXCEPT ![d] = t.state]
       /\ effects' = t.effects
       /\ running' = (t.alive /\ SurvivesTrigger(t.err))
       /\ lastCall' = Call("event", d, "", -1, event, TRUE, current[d], t.err)
  /\ lastAvailability' = Published(lastAvailability, effects')
  /\ UNCHANGED <<statusLoop, poller, statusCh, cancelled, sessionVars, pureVars, triggerVars>>

\* handleStatusUpdates lines 323-329: the initial SafeFetchStatus; its failure is
\* logged, and either way LoopMessages is entered
FetchStatus ==
  /\ running
  /\ poller = "fetch"
  /\ \E err \in {"", "Failed to fetch initial status"} :
       lastCall' = Call("fetch", 0, "", -1, "", FALSE, Absent, err)
  /\ poller' = "loop"
  /\ effects' = <<>>
  /\ lastAvailability' = Published(lastAvailability, effects')
  /\ UNCHANGED <<current, running, statusLoop, statusCh, cancelled, sessionVars, pureVars, triggerVars>>

\* LoopMessages lines 201-204 and handleStatusUpdates lines 331-335:
\* conn.Messages() fails, LoopMessages returns the error
LoopMessagesFails ==
  /\ running
  /\ poller = "loop"
  /\ LET err == "Error reading messages" IN
     /\ poller' = "returned"
     /\ statusCh' = IF ClosesOn(err) THEN "closed" ELSE statusCh
     /\ lastCall' = Call("poll", 0, "", -1, "", FALSE, Absent, err)
  /\ effects' = <<>>
  /\ lastAvailability' = Published(lastAvailability, effects')
  /\ UNCHANGED <<current, running, statusLoop, cancelled, sessionVars, pureVars, triggerVars>>

\* LoopMessages lines 215-217: the select finds ctx.Done() ready, LoopMessages
\* returns nil
LoopMessagesDone ==
  /\ running
  /\ poller = "loop"
  /\ cancelled
  /\ poller' = "returned"
  /\ statusCh' = IF ClosesOn("") THEN "closed" ELSE statusCh
  /\ lastCall' = Call("poll", 0, "", -1, "", FALSE, Absent, "")
  /\ effects' = <<>>
  /\ lastAvailability' = Published(lastAvailability, effects')
  /\ UNCHANGED <<current, running, statusLoop, cancelled, sessionVars, pureVars, triggerVars>>

\* main, lines 130 and 192-194: the range over the closed status channel ends, main
\* returns and the process ends with it
MainReturns ==
  /\ running
  /\ statusLoop = Range
  /\ statusCh = "closed"
  /\ running' = FALSE
  /\ lastCall' = Call("return", 0, "", -1, "", FALSE, Absent, "")
  /\ effects' = <<>>
  /\ lastAvailability' = Published(lastAvailability, effects')
  /\ UNCHANGED <<current, statusLoop, poller, statusCh, cancelled, sessionVars, pureVars, triggerVars>>

\* main, signal goroutine, lines 106-111: the termination signal arrives and the
\* context of the status goroutine is cancelled
ShutdownCancel ==
  /\ running
  /\ ~cancelled
  /\ cancelled' = TRUE
  /\ lastCall' = Call("cancel", 0, "", -1, "", FALSE, Absent, "")
  /\ effects' = <<>>
  /\ lastAvailability' = Published(lastAvailability, effects')
  /\ UNCHANGED <<current, running, statusLoop, poller, statusCh, sessionVars, pureVars, triggerVars>>

\* main, signal goroutine: what setting the devices of the snapshot offline does,
\* in the order the map is iterated
RECURSIVE OfflineEffects(_, _)
OfflineEffects(order, oks) ==
  IF order = <<>> THEN <<>>
  ELSE LET d == Head(order) IN
       (IF current[d] = Absent THEN <<>>
        ELSE Trigger(d, current[d], "go_offline", oks[d], "ok").effects)
       \o OfflineEffects(Tail(order), oks)

\* main, signal goroutine, lines 113-123: the order of the loop over the FSMs
\* and mqttClient.Disconnect(250)
ShutdownEffects_DisconnectFirst(order, oks) == <<Disconnect>> \o OfflineEffects(order, oks)
ShutdownEffects(order, oks) == OfflineEffects(order, oks) \o <<Disconnect>>

\* main, signal goroutine, lines 113-124: every registered FSM is sent
\* go_offline, then the bus client is disconnected and the process exits
Shutdown ==
  /\ running
  /\ cancelled
  /\ \E order \in Permutations(Devices), oks \in [Devices -> BOOLEAN] :
       /\ \A d \in Devices : ~oks[d] => Outcomes(current[d], "go_offline") # {<<TRUE, "ok">>}
       /\ current' = [d \in Devices |->
                        IF current[d] = Absent THEN Absent
                        ELSE Trigger(d, current[d], "go_offline", oks[d], "ok").state]
       /\ effects' = ShutdownEffects(order, oks)
  /\ running' = FALSE
  /\ lastCall' = Call("shutdown", 0, "", -1, "go_offline", FALSE, Absent, "")
  /\ lastAvailability' = Published(lastAvailability, effects')
  /\ UNCHANGED <<statusLoop, poller, statusCh, cancelled, sessionVars, pureVars, triggerVars>>

\* main's status loop over the devices of the snapshots
NextStatusLoop ==
  \/ \E d \in Devices, position \in Positions : ConfigureDevice(d, position)
  \/ StatusOnline
  \/ \E d \in Devices, position \in Positions : StatusDevice(d, position)
  \/ StatusTrigger
  \/ FetchStatus

\* the bridge as main runs it: the status loop, the status goroutine, the
\* signal goroutine and the bus commands
NextDriver ==
  \/ \E d \in Devices, payload \in Payloads : HandleCommand(d, payload)
  \/ NextStatusLoop
  \/ LoopMessagesFails
  \/ LoopMessagesDone
  \/ MainReturns
  \/ ShutdownCancel
  \/ Shutdown

\* the FSMs under every holder there can be: the bus commands, the status loop
\* and any other holder, while the session is up and no signal arrives
NextBridge ==
  \/ \E d \in Devices, payload \in Payloads : HandleCommand(d, payload)
  \/ NextStatusLoop
  \/ \E d \in Devices, event \in EventNames : FSMEvent(d, event)

SpecDriver == InitBridge /\ [][NextDriver]_vars
SpecBridge == InitBridge /\ [][NextBridge]_vars

\* --------------------------------------------- Trigger calls step by step
\* handleCommand lines 281-319: a bus command for a registered device makes
\* the bus client's goroutine call Trigger
CommandCall(d, payload) ==
  /\ running
  /\ trigger["H"].pc = "idle"
  /\ triggers < MaxTriggers
  /\ Exists(d)
  /\ CommandEvent(ToUpper(payload)) # ""
  /\ triggers' = triggers + 1
  /\ trigger' = [trigger EXCEPT !["H"] =
                   TriggerCall(IF LockFree(eventMu[d]) THEN "lock" ELSE "blocked", d,
                               CommandEvent(ToUpper(payload)), triggers + 1, "", <<>>)]
  /\ UNCHANGED <<eventMu, entryLog, bridgeVars, sessionVars, pureVars>>

\* main, lines 140 and 183: the status loop calls Trigger, with go_online for a
\* device just configured and with the selected target otherwise
StatusCall ==
  /\ running
  /\ trigger["M"].pc = "idle"
  /\ triggers < MaxTriggers
  /\ statusLoop.pc \in {"online", "trigger"}
  /\ LET d == statusLoop.dev
         event == IF statusLoop.pc = "online" THEN "go_online" ELSE statusLoop.haState IN
     trigger' = [trigger EXCEPT !["M"] =
                   TriggerCall(IF LockFree(eventMu[d]) THEN "lock" ELSE "blocked", d, event,
                               triggers + 1, "", <<>>)]
  /\ triggers' = triggers + 1
  /\ UNCHANGED <<eventMu, entryLog, bridgeVars, sessionVars, pureVars>>

\* Trigger has returned to its caller: main's loop moves on
Returned(g) ==
  IF g = "M"
    THEN statusLoop' = IF statusLoop.pc = "online" THEN [statusLoop EXCEPT !.pc = "switch"]
                       ELSE Range
    ELSE UNCHANGED statusLoop

\* Trigger: the goroutine gets the lock of the device's FSM
TriggerLock(g) ==
  /\ running
  /\ trigger[g].pc \in {"lock", "blocked"}
  /\ LockFree(eventMu[trigger[g].dev])
  /\ eventMu' = [eventMu EXCEPT ![trigger[g].dev] = g]
  /\ trigger' = [trigger EXCEPT ![g].pc = IF @ = "blocked" THEN "evalLate" ELSE "eval"]
  /\ UNCHANGED <<triggers, entryLog, bridgeVars, sessionVars, pureVars>>

\* Trigger: the event is looked up for the state the FSM is in; an event with no
\* transition returns its error, otherwise the FSM takes the new state
TriggerEval(g) ==
  /\ running
  /\ trigger[g].pc \in {"eval", "evalLate"}
  /\ LET d == trigger[g].dev
         event == trigger[g].event IN
     \E o \in Outcomes(current[d], event) :
       LET t == Trigger(d, current[d], event, o[1], o[2])
           call == [trigger[g] EXCEPT !.state = t.state] IN
       IF t.err # ""
         THEN /\ trigger' = [trigger EXCEPT ![g] = NoTrigger]
              /\ eventMu' = [eventMu EXCEPT ![d] = NoProc]
              /\ Returned(g)
              /\ UNCHANGED <<current, entryLog>>
         ELSE /\ current' = [current EXCEPT ![d] = t.state]
              /\ trigger' = [trigger EXCEPT ![g] =
                               [call EXCEPT !.pc = "callback", !.todo = Tail(t.effects)]]
              /\ entryLog' = Append(entryLog,
                                    Entry(g, call, current[d], t.state, Head(t.effects),
                                          trigger[g].pc = "evalLate"))
              /\ UNCHANGED <<eventMu, statusLoop>>
  /\ UNCHANGED <<triggers, running, poller, statusCh, cancelled, lastCall, effects,
                 lastAvailability, sessionVars, pureVars>>

\* the entry callback of the new state does its next publish or command
TriggerEffect(g) ==
  /\ running
  /\ trigger[g].pc = "callback"
  /\ trigger[g].todo # <<>>
  /\ entryLog' = Append(entryLog,
                        Entry(g, trigger[g], "", current[trigger[g].dev],
                              Head(trigger[g].todo), FALSE))
  /\ trigger' = [trigger EXCEPT ![g].todo = Tail(@)]
  /\ UNCHANGED <<eventMu, triggers, bridgeVars, sessionVars, pureVars>>

\* the entry callback is through: Trigger releases the lock and returns
TriggerReturn(g) ==
  /\ running
  /\ trigger[g].pc = "callback"
  /\ trigger[g].todo = <<>>
  /\ eventMu' = [eventMu EXCEPT ![trigger[g].dev] = NoProc]
  /\ trigger' = [trigger EXCEPT ![g] = NoTrigger]
  /\ Returned(g)
  /\ UNCHANGED <<triggers, entryLog, current, running, poller, statusCh, cancelled,
                 lastCall, effects, lastAvailability, sessionVars, pureVars>>

\* the bus client's goroutine and main's status loop, each Trigger call taken
\* apart into its steps
NextSerial ==
  \/ FetchStatus
  \/ \E d \in Devices, position \in Positions : ConfigureDevice(d, position)
  \/ \E d \in Devices, position \in Positions : StatusDevice(d, position)
  \/ \E d \in Devices, payload \in Payloads : CommandCall(d, payload)
  \/ StatusCall
  \/ \E g \in Triggerers : TriggerLock(g)
  \/ \E g \in Triggerers : TriggerEval(g)
  \/ \E g \in Triggerers : TriggerEffect(g)
  \/ \E g \in Triggerers : TriggerReturn(g)

SpecSerial == InitBridge /\ [][NextSerial]_vars

\* --------------------------------------------------- pure-function calls
\* a position about to be handed to GetCommandForPosition
InitPosition ==
  /\ active = {} /\ InitState
  /\ askedPosition \in (0 - MaxBelow)..MaxPosition
  /\ chosenCommand = NoCommand
  /\ plaintext = <<>> /\ crypted = NoCrypted /\ decrypted = Unset /\ dp = Unset

\* one call of GetCommandForPosition
CallGetCommandForPosition ==
  /\ chosenCommand = NoCommand
  /\ chosenCommand' = GetCommandForPosition(askedPosition)
  /\ UNCHANGED <<askedPosition, plaintext, crypted, decrypted, dp, sessionVars, bridgeVars, triggerVars>>

\* a further call, for the next greater position
CallForNextPosition ==
  /\ chosenCommand # NoCommand
  /\ askedPosition < MaxPosition
  /\ askedPosition' = askedPosition + 1
  /\ chosenCommand' = GetCommandForPosition(askedPosition + 1)
  /\ UNCHANGED <<plaintext, crypted, decrypted, dp, sessionVars, bridgeVars, triggerVars>>

NextPosition == CallGetCommandForPosition \/ CallForNextPosition
SpecPosition == InitPosition /\ [][NextPosition]_vars

\* a plaintext about to be encrypted: any length up to MaxPlainLen
InitCrypto ==
  /\ active = {} /\ InitState
  /\ askedPosition = 0 /\ chosenCommand = NoCommand
  /\ \E n \in 0..MaxPlainLen, b \in PlainBytes : plaintext = [i \in 1..n |-> b]
  /\ crypted = NoCrypted
  /\ decrypted = Unset
  /\ dp = Unset

\* NewEncCipher(key, t) and Encrypt(src)
CallEncrypt ==
  /\ crypted = NoCrypted
  /\ \E key \in Keys, t \in Times : crypted' = Crypted(key, t, EncryptBytes(key, t, plaintext))
  /\ UNCHANGED <<askedPosition, chosenCommand, plaintext, decrypted, dp, sessionVars, bridgeVars, triggerVars>>

\* NewDecCipher with the same key and time, and Decrypt of what Encrypt returned
CallDecrypt ==
  /\ crypted # NoCrypted
  /\ decrypted = Unset
  /\ decrypted' = Decrypt(crypted.key, crypted.t, crypted.bytes)
  /\ UNCHANGED <<askedPosition, chosenCommand, plaintext, crypted, dp, sessionVars, bridgeVars, triggerVars>>

NextCrypto == CallEncrypt \/ CallDecrypt
SpecCrypto == InitCrypto /\ [][NextCrypto]_vars

\* a message has come in: its payload is about to be read, as genericRequest
\* does for every message of a response
InitRead ==
  /\ active = {} /\ InitState
  /\ askedPosition = 0 /\ chosenCommand = NoCommand
  /\ plaintext = <<>> /\ crypted = NoCrypted /\ decrypted = Unset
  /\ \E isEncrypted, valid \in BOOLEAN, t \in Times, key \in Keys,
        n \in 0..MaxPlainLen, b \in PlainBytes :
       dp = [IsEncrypted |-> isEncrypted, Time |-> t, valid |-> valid,
             bytes |-> [i \in 1..n |-> b], key |-> key]

\* message.readData(dc.phoneSecret)
CallReadData ==
  /\ decrypted = Unset
  /\ decrypted' = readData(dp)
  /\ UNCHANGED <<askedPosition, chosenCommand, plaintext, crypted, dp, sessionVars,
                 bridgeVars, triggerVars>>

SpecRead == InitRead /\ [][CallReadData]_vars

\* ---------------------------------------------------------------- claims
Suffix(e) == e.ProcessID[2]
InFlight(r) == pc[r] \notin {"idle", "done"}

\* C1: every RPC that returned successfully got a message carrying the processID
\* of its own request, and no message was returned to two callers.
C1_ReplyMatchesOwnProcessID ==
  \A r \in Callers :
    result[r] = "ok" =>
      /\ reply[r] # NoMsg
      /\ reply[r].ProcessID = pid[r]
      /\ \A s \in Callers \ {r} : result[s] = "ok" => reply[s] # reply[r]

\* both calls returned successfully, each with a reply that came over its channel
C1_Witness ==
  /\ \A r \in Callers : result[r] = "ok" /\ sendCount[pid[r]] = 1
  /\ unresolvedRPC = {}

\* C2: of two consecutive signed requests (RPC or poll) the later one has a
\* strictly greater time and a sequence suffix exactly one greater.
C2_ConsecutiveRequestsMonotone ==
  \A i \in 1..(Len(requests) - 1) :
    /\ requests[i + 1].Time > requests[i].Time
    /\ Suffix(requests[i + 1]) = Suffix(requests[i]) + 1

\* an RPC, a poll and another RPC were signed one after the other
C2_Witness ==
  /\ Len(requests) = 3
  /\ requests[1].Path = ActionPath
  /\ requests[2].Path = MessagesPath
  /\ requests[3].Path = ActionPath

\* C3: whenever a goroutine is about to handle the first message for the
\* processID of an RPC that has been sent and has not returned, that processID
\* is already in the correlation table.
C3_RegisteredBeforeResponseIsRead ==
  \A g \in Procs, r \in Callers :
    ( /\ pc[g] \in {"proc", "loop2"}
      /\ msgs[g] # <<>>
      /\ Head(msgs[g]).ProcessID = pid[r]
      /\ InFlight(r)
      /\ sendCount[pid[r]] = 0 )
    => pid[r] \in unresolvedRPC

\* C4: no message with a positive processState is handed to an RPC caller or
\* put on a waiter's channel.
C4_IntermediateNeverDelivered ==
  /\ \A r \in Callers : result[r] = "ok" => IsFinal(reply[r])
  /\ \A p \in PIDs : \A i \in 1..Len(chanBuf[p]) : IsFinal(chanBuf[p][i])

\* C5: a waiter's channel is sent at most one message, its entry is gone from the
\* table once the message has been sent, and no send finds the channel full.
C5_SentExactlyOnceNeverBlocks ==
  /\ \A p \in PIDs :
       /\ sendCount[p] <= 1
       /\ Len(chanBuf[p]) <= ChanCap
       /\ sendCount[p] >= 1 => p \notin unresolvedRPC
  /\ \A g \in Procs :
       /\ pc[g] = "gsend" => prev[g] \notin unresolvedRPC /\ Len(chanBuf[prev[g]]) < ChanCap
       /\ ( /\ pc[g] = "loop2"
            /\ msgs[g] # <<>>
            /\ Head(msgs[g]).ProcessID # EmptyPID
            /\ Deliverable(unresolvedRPC, Head(msgs[g])) )
          => Len(chanBuf[Head(msgs[g]).ProcessID]) < ChanCap

\* the basestation emitted two messages for one processID: the first was sent on
\* the channel, the second found no entry
C5_Witness ==
  \E p \in PIDs :
    /\ srvEmitted[p] = 2
    /\ sendCount[p] = 1
    /\ \A g \in Procs : msgs[g] = <<>> /\ pc[g] # "gsend"

\* C6: a caller returns ErrTimeout only after its own timer has fired, and the
\* step in which it does so changes nothing of any other caller: not its result,
\* its position, its channel, its table entry or its timer.
C6_TimeoutLeavesOtherAlone ==
  [][\A r \in Callers :
       (result[r] # "timeout" /\ result'[r] = "timeout") =>
         /\ timerFired[r]
         /\ \A s \in Callers \ {r} :
              /\ result'[s] = result[s]
              /\ reply'[s] = reply[s]
              /\ pc'[s] = pc[s]
              /\ timerFired'[s] = timerFired[s]
              /\ pid[s] # EmptyPID =>
                   /\ chanBuf'[pid[s]] = chanBuf[pid[s]]
                   /\ (pid[s] \in unresolvedRPC') = (pid[s] \in unresolvedRPC)]_vars

\* A's reply never arrived and A timed out; B got its own reply over its channel
C6_Witness ==
  /\ result["A"] = "timeout"
  /\ sendCount[pid["A"]] = 0
  /\ result["B"] = "ok"
  /\ reply["B"].ProcessID = pid["B"]
  /\ sendCount[pid["B"]] = 1

\* C7: a received message with an empty processID is appended to the status
\* queue once, never more, and never put on a waiter's channel.
C7_StatusQueuedExactlyOnce ==
  /\ \A n \in received :
       /\ appendCount[n] <= 1
       /\ (\A g \in Procs : msgs[g] = <<>> /\ pc[g] \notin {"proc", "loop2"})
            => appendCount[n] = 1
  /\ \A p \in PIDs : \A i \in 1..Len(chanBuf[p]) : chanBuf[p][i].ProcessID # EmptyPID

\* C8: in every signed request the IV basis, the envelope time and the t of
\* both signatures are one and the same value.
C8_OneTimeValue ==
  \A i \in 1..Len(requests) :
    LET e == requests[i] IN
    /\ e.Data[3] = IVOf(e.Time)
    /\ e.SessionSignature[3] = e.Time
    /\ e.PhoneSignature[3] = e.Time

\* an RPC and a poll have been signed, the cursor having moved on after each
C8_Witness ==
  /\ Len(requests) >= 2
  /\ \E i, j \in 1..Len(requests) :
       requests[i].Path = ActionPath /\ requests[j].Path = MessagesPath
  /\ nextAccess # requests[Len(requests)].Time

\* C9: no two signed requests of the session carry the same processID, each is
\* prefix-suffix, and two RPCs in flight together have distinct processIDs.
C9_ProcessIDsUnique ==
  /\ \A i, j \in 1..Len(requests) :
       i # j => requests[i].ProcessID # requests[j].ProcessID
  /\ \A i \in 1..Len(requests) :
       requests[i].ProcessID = ProcessID(Prefix, Suffix(requests[i])) /\ Suffix(requests[i]) >= 1
  /\ \A r, s \in Callers : (r # s /\ InFlight(r) /\ InFlight(s)) => pid[r] # pid[s]

\* both RPCs are in flight at once
C9_Witness ==
  /\ \A r \in Callers : pc[r] = "wait"
  /\ Len(requests) >= 2

\* C10: a caller waiting in waitForPid's select does not hold the send mutex;
\* the mutex is held only between signing a request and handling its response.
C10_WaitOutsideMutex ==
  /\ \A r \in Callers : pc[r] \in {"wait", "sent", "plock", "idle", "done"}
                          => genericRequestMutex # r
  /\ \A g \in Procs : genericRequestMutex = g => pc[g] \in {"proc", "gsend", "loop2"}

\* B signed after A, sent and completed its RPC while A is still waiting
C10_Witness ==
  /\ pc["A"] = "wait"
  /\ result["B"] = "ok"
  /\ pid["B"] # EmptyPID
  /\ pid["B"][2] > pid["A"][2]
\* the string-valued fields of a signed envelope, as they are marshalled
EnvelopeStrings(e) ==
  {e.SessionID, e.Path, e.Credential.PhoneSecret, e.Credential.BaseStation,
   e.Credential.Phone, e.Credential.PhonePassword, e.Credential.UserPassword}

\* C12: of the credential fields a signed request envelope carries only the
\* basestation id; phone id, phone password, user password and phone secret
\* appear in no signed request, neither in their own field nor in another one.
C12_OnlyBaseStationInEnvelope ==
  \A i \in 1..Len(requests) :
    LET e == requests[i] IN
    /\ e.Credential.BaseStation = cred.BaseStation
    /\ e.Credential.Phone = "" /\ e.Credential.PhonePassword = ""
    /\ e.Credential.UserPassword = "" /\ e.Credential.PhoneSecret = ""
    /\ EnvelopeStrings(e) \cap
         {cred.Phone, cred.PhonePassword, cred.UserPassword, cred.PhoneSecret} = {}

\* an RPC envelope and a poll envelope have been signed
C12_Witness ==
  /\ \E i, j \in 1..Len(requests) :
       requests[i].Path = ActionPath /\ requests[j].Path = MessagesPath
  /\ \A i \in 1..Len(requests) : requests[i].Credential.BaseStation = "bs"

\* a call of RPC that got a reply and decoded it
Decoded(r) == pc[r] = "done" /\ result[r] \in {"ok", "code", "unmarshal"}

\* C11 (as claimed): a reply whose code is nonzero makes RPC return an error and
\* leaves the caller's Output unwritten; a reply whose code is 0 is unmarshalled
\* into Output (when one is given) and RPC returns success.
C11_CodeZeroAlwaysSucceeds ==
  \A r \in Callers : Decoded(r) =>
    /\ responseBytes[r].code # 0 => result[r] = "code" /\ output[r] = Unwritten
    /\ responseBytes[r].code = 0 =>
          /\ result[r] = "ok"
          /\ HasOutput(r) => output[r] = "written"

\* C11 (amended): a reply whose code is nonzero makes RPC return an error and
\* leaves the caller's Output unwritten; a reply whose code is 0 is unmarshalled
\* into Output when one is given and RPC returns the result of that unmarshalling:
\* success when the reply fits Output, the unmarshalling error when it does not;
\* with no Output given it returns success.
C11_CodeDecidesResult ==
  \A r \in Callers : Decoded(r) =>
    /\ responseBytes[r].code # 0 => result[r] = "code" /\ output[r] = Unwritten
    /\ responseBytes[r].code = 0 =>
          IF HasOutput(r)
            THEN /\ output[r] # Unwritten
                 /\ result[r] = "ok" <=> responseBytes[r].fits
                 /\ result[r] = "ok" => output[r] = "written"
            ELSE result[r] = "ok" /\ output[r] = Unwritten

\* A got a code-0 reply that was unmarshalled into its Output, B a reply with a
\* nonzero code
C11_Witness ==
  /\ Decoded("A") /\ result["A"] = "ok" /\ output["A"] = "written"
  /\ Decoded("B") /\ result["B"] = "code" /\ responseBytes["B"].code # 0
\* the last call triggered an event on the FSM of its device, and FSM.Event did
\* not reject it as invalid in the state the FSM was in
Triggered == lastCall.triggered
Accepted == lastCall.err # "InvalidEventError"

C14_OpenCloseFromOnline ==
  LET src == [go_open |-> {"online", "closed", "stopped"},
              go_close |-> {"online", "open", "stopped"}]
      dst == [go_open |-> "opening", go_close |-> "closing"]
  IN (Triggered /\ lastCall.event \in DOMAIN src) =>
       /\ Accepted <=> lastCall.before \in src[lastCall.event]
       /\ Accepted => current[lastCall.dev] = dst[lastCall.event]

\* C15: an event triggered in a state the table does not allow it in leaves the
\* FSM in that state, runs no entry effect (nothing is published, no command is
\* sent) and only returns an error to the caller, which goes on running.
C15_IllegalEventIsNoOp ==
  (Triggered /\ ~\E e \in Events : e.Name = lastCall.event /\ lastCall.before \in e.Src) =>
    /\ current[lastCall.dev] = lastCall.before
    /\ effects = <<>>
    /\ lastCall.err = "InvalidEventError"
    /\ running

\* the bus command OFFLINE reached a device that is offline, go_stopped a device
\* that is open: both are rejected
C15_Witness ==
  /\ Triggered /\ lastCall.err = "InvalidEventError" /\ running
  /\ \/ lastCall.op = "command" /\ lastCall.event = "go_offline" /\ lastCall.before = "offline"
     \/ lastCall.op = "event" /\ lastCall.event = "go_stopped" /\ lastCall.before = "open"

\* C16: the states a device FSM can be in, whatever events are applied from
\* initial, are the states obtained by closing the transition table of section
\* 4.4 from initial; the table the FSM is built from closes to the same set.
C16_ReachableIsClosure ==
  LET seven == {"online", "opening", "closing", "open", "closed", "stopping", "stopped"}
      table == {[Src |-> {"initial", "offline"}, Dst |-> "online"],
                [Src |-> seven, Dst |-> "offline"],
                [Src |-> {"online", "closed", "stopped"}, Dst |-> "opening"],
                [Src |-> {"online", "open", "stopped"}, Dst |-> "closing"],
                [Src |-> {"online", "opening", "open", "closing", "closed"}, Dst |-> "stopping"],
                [Src |-> {"stopping"}, Dst |-> "stopped"],
                [Src |-> seven, Dst |-> "open"],
                [Src |-> seven, Dst |-> "closed"]}
      step(t, S) == S \cup {e.Dst : e \in {x \in t : x.Src \cap S # {}}}
      \* nine states: nine steps reach the fixpoint
      close(t) == step(t, step(t, step(t, step(t, step(t, step(t, step(t, step(t,
                    step(t, {InitialState})))))))))
      code == {[Src |-> e.Src, Dst |-> e.Dst] : e \in Events}
  IN /\ \A d \in Devices : current[d] # Absent => current[d] \in close(table)
     /\ close(code) = close(table)

\* the state farthest from initial: stopped, reached over online, stopping
C16_Witness ==
  \E d \in Devices : current[d] = "stopped" /\ lastCall.event = "go_stopped"

C18_CommandFailureKeepsState ==
  LET stateOf(cmd) == IF cmd = CMD_OPEN THEN "opening"
                      ELSE IF cmd = CMD_CLOSE THEN "closing" ELSE "stopping" IN
  \A i \in 1..Len(effects) :
    (effects[i].kind = "command" /\ effects[i].outcome \in RPCErrors) =>
      /\ current[effects[i].dev] = stateOf(effects[i].cmd)
      /\ running

\* the open command timed out: the device stays in opening, the bridge runs
C18_Witness ==
  /\ running
  /\ \E i \in 1..Len(effects) :
       /\ effects[i].kind = "command" /\ effects[i].cmd = CMD_OPEN
       /\ effects[i].outcome = "timeout"
       /\ current[effects[i].dev] = "opening"

\* C19: every availability message (online, offline) is published with
\* retain=true, every state message (opening, closing, stopping, open, closed)
\* with retain=false.
C19_RetainFlags ==
  \A i \in 1..Len(effects) :
    /\ effects[i].kind = "availability" => effects[i].retained
    /\ effects[i].kind = "state" => ~effects[i].retained

\* C20: for a device of a status snapshot the driver selects go_opened when the
\* position is 100 and go_closed when it is 0; for a position from 1 to 99 it
\* selects no event, goes on to the next device and triggers nothing, so that
\* the state of the device's FSM stays as it was; what it triggers later is the
\* event it selected.
C20_OnlyExtremesDrive ==
  [][/\ lastCall'.op = "status" =>
          LET d == lastCall'.dev
              position == lastCall'.pos IN
          /\ position = OPEN => lastCall'.event = "go_opened"
          /\ position = CLOSE => lastCall'.event = "go_closed"
          /\ position \in 1..99 =>
               /\ lastCall'.event = "" /\ statusLoop' = Range
               /\ effects' = <<>>
               /\ current' = current
     /\ lastCall'.op = "drive" =>
          /\ lastCall'.pos \in {OPEN, CLOSE}
          /\ lastCall'.event = (IF lastCall'.pos = OPEN THEN "go_opened" ELSE "go_closed")]_vars

\* a device known to be closed was reported at position 99 and stays closed
C20_Witness ==
  /\ lastCall.op = "status" /\ lastCall.pos = 99 /\ statusLoop = Range
  /\ lastCall.before = "closed" /\ current[lastCall.dev] = "closed"

\* C21: the status driver goes on to the next device without triggering when it
\* reads closed with target go_closed, open with go_opened, opening with
\* go_closed or closing with go_opened; and no trigger of the driver finds the
\* FSM in such a state or moves it from opening to closed or from closing to
\* open, whatever bus commands are handled between its read and its trigger.
C21_DriverElides ==
  [][LET skipped == {<<"closed", "go_closed">>, <<"open", "go_opened">>,
                     <<"opening", "go_closed">>, <<"closing", "go_opened">>} IN
     /\ (lastCall'.op = "status" /\ <<lastCall'.before, lastCall'.event>> \in skipped)
          => statusLoop' = Range /\ current' = current /\ effects' = <<>>
     /\ lastCall'.op = "drive" =>
          LET d == lastCall'.dev IN
          /\ <<current[d], lastCall'.event>> \notin skipped
          /\ ~(current[d] = "opening" /\ current'[d] = "closed")
          /\ ~(current[d] = "closing" /\ current'[d] = "open")]_vars

\* a device that is opening was reported closed, and the driver left it opening
C21_Witness ==
  /\ lastCall.op = "status" /\ lastCall.before = "opening" /\ lastCall.event = "go_closed"
  /\ statusLoop = Range /\ current[lastCall.dev] = "opening"

\* C22: a command payload is upper-cased and mapped ONLINE to go_online, OFFLINE
\* to go_offline, GO_OPEN to go_open, GO_CLOSE to go_close and STOP to go_stop,
\* triggered on the FSM of the device named in the topic and on no other; any
\* other payload, and any command for a device without an FSM, triggers
\* nothing, creates no FSM and leaves every FSM as it was.
C22_CommandMapping ==
  [][lastCall'.op = "command" =>
       LET d == lastCall'.dev
           expected == CASE lastCall'.cmd \in {"ONLINE", "online"} -> "go_online"
                         [] lastCall'.cmd \in {"OFFLINE", "offline"} -> "go_offline"
                         [] lastCall'.cmd \in {"GO_OPEN", "Go_Open"} -> "go_open"
                         [] lastCall'.cmd \in {"GO_CLOSE", "go_close"} -> "go_close"
                         [] lastCall'.cmd \in {"STOP", "stop"} -> "go_stop"
                         [] OTHER -> ""
           entered == CASE expected = "go_online" -> "online"
                        [] expected = "go_offline" -> "offline"
                        [] expected = "go_open" -> "opening"
                        [] expected = "go_close" -> "closing"
                        [] expected = "go_stop" -> "stopping"
                        [] OTHER -> "" IN
       /\ \A e \in Devices \ {d} : current'[e] = current[e]
       /\ IF current[d] = Absent \/ expected = ""
            THEN ~lastCall'.triggered /\ current' = current /\ effects' = <<>>
            ELSE /\ lastCall'.triggered /\ lastCall'.event = expected
                 /\ lastCall'.before = current[d]
                 /\ current'[d] = (IF lastCall'.err = "" THEN entered ELSE current[d])]_vars

\* the payload "Go_Open" for a closed device made its FSM enter opening
C22_Witness ==
  /\ lastCall.op = "command" /\ lastCall.cmd = "Go_Open" /\ lastCall.event = "go_open"
  /\ lastCall.before = "closed" /\ lastCall.err = "" /\ current[lastCall.dev] = "opening"

\* C23: a device is configured, and so an FSM created for it, only when its id
\* has no FSM yet; an FSM once registered is never removed and never replaced by
\* a new one; and the status loop triggers go_online only on the device it has
\* just configured.
C23_OneFSMPerDevice ==
  [][/\ \A d \in Devices :
          /\ current[d] # Absent => current'[d] # Absent
          /\ (current'[d] = InitialState /\ current[d] # InitialState)
               => current[d] = Absent /\ lastCall'.op = "configure" /\ lastCall'.dev = d
     /\ lastCall'.op = "configure" =>
          /\ current[lastCall'.dev] = Absent
          /\ statusLoop = Range
          /\ \A d \in Devices \ {lastCall'.dev} : current'[d] = current[d]
     /\ lastCall'.op = "online" =>
          /\ statusLoop.pc = "online" /\ statusLoop.dev = lastCall'.dev
          /\ statusLoop'.pc = "switch"]_vars

\* a device the driver had brought to open came up in a later snapshot and was
\* handled with the FSM it has
C23_Witness ==
  /\ lastCall.op = "status" /\ lastCall.before = "open"
  /\ statusLoop = Range /\ current[lastCall.dev] = "open"

\* C24: the signal handler cancels the context of the status goroutine before
\* anything else and changes no FSM in doing so; it then triggers go_offline on
\* every registered FSM, each active one entering offline and publishing
\* availability offline; the bus client is disconnected once, after all of
\* those, and with that the process exits.
C24_ShutdownOrder ==
  [][/\ lastCall'.op = "cancel" =>
          ~cancelled /\ cancelled' /\ running' /\ current' = current /\ effects' = <<>>
     /\ (\E i \in 1..Len(effects') : effects'[i].kind = "disconnect")
          => lastCall'.op = "shutdown"
     /\ (running /\ lastCall'.op = "shutdown") =>
          LET n == Len(effects') IN
          /\ cancelled
          /\ ~running'
          /\ n >= 1 /\ effects'[n].kind = "disconnect"
          /\ \A i \in 1..(n - 1) :
               /\ effects'[i].kind \in {"enter", "availability"}
               /\ effects'[i].payload = "offline"
          /\ \A d \in Devices :
               IF current[d] \in Active
                 THEN /\ current'[d] = "offline"
                      /\ \E i \in 1..(n - 1) :
                           /\ effects'[i].kind = "availability" /\ effects'[i].dev = d
                           /\ effects'[i].payload = "offline"
                 ELSE /\ current'[d] = current[d]
                      /\ \A i \in 1..(n - 1) : effects'[i].dev # d]_vars

\* the handler has set every device offline, disconnected and exited, at least
\* one device having been active
C24_Witness ==
  /\ lastCall.op = "shutdown" /\ ~running /\ cancelled
  /\ Len(effects) >= 3
  /\ effects[Len(effects)].kind = "disconnect"
  /\ effects[2].kind = "availability" /\ effects[2].payload = "offline"
  /\ \A d \in Devices : current[d] \in {Absent, InitialState, "offline"}

\* C25: once the context has been cancelled and the status goroutine has
\* returned, the status channel is closed, so that main's loop over it ends.
C25_CancelClosesChannel ==
  (cancelled /\ poller = "returned") => statusCh = "closed"

C27_DiscoveryRetainedAndRetried ==
  \A i \in 1..Len(effects) :
    effects[i].kind = "config" =>
      /\ effects[i].retained
      /\ effects[i].outcome = "error" => running

\* C28: a waiting RPC issues its first poll on the first tick, and the number
\* of ticks it lets pass before each further poll is greater than the number
\* it let pass before the poll preceding it.
C28_PollsBackOff ==
  \A r \in Callers :
    LET w == waited[r]
        n == IF pc[r] = "wait" THEN Len(w) - 1 ELSE Len(w) IN
    /\ n >= 1 => w[1] = 1
    /\ \A i \in 2..n : w[i] > w[i - 1]

\* C29: GetCommandForPosition returns close (4) for a position of 0 or less,
\* open (2) for one of 96 or more, and 31 + ceil(p/5) for any p between: the
\* code of the least 5% step that is not below p; and of two calls the one for
\* the greater position never returns the lesser step.
C29_RoundsUpToBucket ==
  [][chosenCommand' # NoCommand =>
       LET p == askedPosition'
           percent(c) == IF c = 4 THEN 0 ELSE IF c = 2 THEN 100 ELSE 5 * (c - 31) IN
       /\ p <= 0 => chosenCommand' = 4
       /\ p >= 96 => chosenCommand' = 2
       /\ p \in 1..95 =>
            /\ chosenCommand' = 31 + ((p + 4) \div 5)
            /\ percent(chosenCommand') >= p /\ percent(chosenCommand') < p + 5
       /\ (chosenCommand # NoCommand /\ askedPosition' > askedPosition)
            => percent(chosenCommand') >= percent(chosenCommand)]_vars

\* position 12, between two steps, got the code of the 15% step
C29_Witness ==
  askedPosition = 12 /\ chosenCommand = 34

\* C30: what Encrypt returns is longer than the plaintext by 1 to 16 bytes and
\* a whole number of blocks, and Decrypt with the same key and time returns of
\* it exactly the plaintext, also for the empty plaintext and for one that
\* fills its blocks.
C30_EncryptDecryptRoundTrip ==
  /\ crypted # NoCrypted =>
       /\ Len(crypted.bytes) - Len(plaintext) \in 1..16
       /\ Len(crypted.bytes) % 16 = 0
  /\ decrypted # Unset => decrypted = plaintext

\* a plaintext of exactly one block that ends in the byte 1 came back whole
C30_Witness ==
  /\ Len(plaintext) = 16 /\ plaintext[16] = 1
  /\ Len(crypted.bytes) = 32
  /\ decrypted = plaintext

\* C31: two Trigger calls under way at once on one device FSM are applied one
\* after the other: at most one of them is past the lock, the later one starts
\* from the state the earlier one left, every entry effect is done while the
\* FSM is in the state its own transition produced, and the entry effects of
\* one call are not interleaved with those of another.
C31_TriggersSerialized ==
  /\ \A g, h \in Triggerers :
       ( /\ g # h
         /\ trigger[g].pc \in {"eval", "evalLate", "callback"}
         /\ trigger[h].pc \in {"eval", "evalLate", "callback"} )
       => trigger[g].dev # trigger[h].dev
  /\ \A g \in Triggerers :
       trigger[g].pc = "callback" => current[trigger[g].dev] = trigger[g].state
  /\ \A i \in 1..Len(entryLog) : entryLog[i].seen = entryLog[i].state
  /\ \A i, k \in 1..Len(entryLog) :
       (i < k /\ entryLog[i].n = entryLog[k].n) =>
         \A j \in i..k : entryLog[j].dev = entryLog[i].dev => entryLog[j].n = entryLog[i].n
  /\ \A i, k \in 1..Len(entryLog) :
       ( /\ i < k
         /\ entryLog[i].effect.kind = "enter" /\ entryLog[k].effect.kind = "enter"
         /\ entryLog[i].dev = entryLog[k].dev
         /\ \A j \in (i + 1)..(k - 1) :
              ~(entryLog[j].effect.kind = "enter" /\ entryLog[j].dev = entryLog[i].dev) )
       => entryLog[k].before = entryLog[i].state

\* a bus command was triggered while the status loop's call held the FSM of the
\* same device and was in its entry callback; it went through afterwards, from
\* the state the status loop's call had left, and both callbacks are over
C31_Witness ==
  /\ \A g \in Triggerers : trigger[g].pc = "idle"
  /\ \E i, k \in 1..Len(entryLog) :
       /\ i < k
       /\ entryLog[i].by = "M" /\ entryLog[k].by = "H"
       /\ entryLog[i].dev = entryLog[k].dev
       /\ entryLog[k].effect.kind = "enter" /\ entryLog[k].contended
       /\ entryLog[i].effect.kind = "availability"
       /\ entryLog[k].before = entryLog[i].state
       /\ \E m \in (k + 1)..Len(entryLog) :
            entryLog[m].n = entryLog[k].n /\ entryLog[m].effect.kind = "command"

\* C32: when genericRequest has handed RPC its response, RPC goes one of two
\* ways. If the response holds a message with the request's own processID and
\* processState null or 0, RPC goes on with such a message at once: no entry is
\* put into the correlation table and no further request is signed. Otherwise
\* it enters its processID in the table and waits.
C32_InlineOrWaiter ==
  [][\A r \in Callers :
       (pc[r] = "sent" /\ pc'[r] # "sent") =>
         LET ms == gresp[r].messages
             own == {i \in 1..Len(ms) :
                       /\ ms[i].ProcessID = pid[r]
                       /\ ms[i].ProcessState \in {NilState, 0}} IN
         IF own # {}
           THEN /\ pc'[r] = "done"
                /\ \E i \in own : reply'[r] = ms[i]
                /\ unresolvedRPC' = unresolvedRPC
                /\ requests' = requests
                /\ sendCount'[pid[r]] = 0
           ELSE /\ pc'[r] = "wait"
                /\ pid[r] \in unresolvedRPC'
                /\ result'[r] = "none" /\ reply'[r] = NoMsg]_vars

\* A's reply came inline: A returned it with a single request signed so far for
\* it and nothing sent on a channel; B's response held no reply, B waits with
\* its processID in the table
C32_Witness ==
  /\ result["A"] = "ok" /\ reply["A"].ProcessID = pid["A"]
  /\ sendCount[pid["A"]] = 0
  /\ pc["B"] = "wait" /\ pid["B"] \in unresolvedRPC
  /\ Len(requests) = 2

\* C33: when a goroutine other than the caller takes up, in the response it is
\* handling, the first final message for the processID of an RPC that has been
\* sent and has not returned, it hands the message to that RPC's channel; it
\* does not drop it as an unknown response, whether or not the caller has
\* entered its channel in the table yet.
C33_EarlyReplyDelivered ==
  [][\A g \in Procs, r \in Callers :
       ( /\ g # r
         /\ pc[g] = "proc" /\ msgs[g] # <<>>
         /\ Head(msgs[g]).ProcessID = pid[r]
         /\ Head(msgs[g]).ProcessState \in {NilState, 0}
         /\ InFlight(r)
         /\ sendCount[pid[r]] = 0
         /\ (msgs'[g] # msgs[g] \/ pc'[g] # pc[g]) )
       => (pc'[g] = "gsend" /\ prev'[g] = pid[r])]_vars

C35_AppendedReturnedOnce ==
  \A n \in 1..MaxStatus :
    LET InQueue == Cardinality({i \in 1..Len(pendingMessages) : pendingMessages[i].Sequence = n})
        HandedOut == Cardinality({i \in 1..Len(returned) : returned[i].Sequence = n}) IN
    InQueue + HandedOut = appendCount[n]

\* C36: once an RPC has returned, whether with its reply, with the error of a
\* poll or with ErrTimeout, its processID is not in the correlation table: the
\* table holds only processIDs of RPCs that are still waiting.
C36_ReturnedNotInTable ==
  \A r \in Callers : pc[r] = "done" => pid[r] \notin unresolvedRPC

\* C37: when the shutdown handler has finished its go_offline pass, every
\* device that has an FSM is in offline, and what was last published on the
\* availability topic of each such device is offline, also when the status
\* loop was in the middle of a snapshot or a bus command came in meanwhile.
C37_AllOfflineAfterShutdown ==
  lastCall.op = "shutdown" =>
    \A d \in Devices :
      current[d] # Absent => (current[d] = "offline" /\ lastAvailability[d] = "offline")

\* C38: when the status loop has dealt with a snapshot entry for a device whose
\* FSM it found in offline, the FSM has left offline for one of the states of
\* a reachable device and availability online is what was published last: the
\* device being reported is enough, no ONLINE bus command is needed.
C38_ReportedDeviceComesBack ==
  [][( /\ lastCall'.op \in {"status", "drive"}
       /\ statusLoop' = Range
       /\ lastCall'.before = "offline" )
     => ( /\ current'[lastCall'.dev] \in Active
          /\ lastAvailability'[lastCall'.dev] = "online" )]_vars

\* C39: when a STOP bus command has just moved the FSM of a device to stopping,
\* then, with the door resting between 1 and 99, the bus commands and the
\* status snapshots there can be lead the FSM to some state from which go_open
\* or go_close has a transition, so that a GO_OPEN or GO_CLOSE command is
\* accepted.
C39_StoppedDoorCommandable ==
  \A d \in Devices :
    ( /\ lastCall.op = "command" /\ lastCall.dev = d
      /\ lastCall.event = "go_stop" /\ lastCall.err = ""
      /\ current[d] = "stopping" )
    => LET ByCommand(st) ==
             {Trigger(d, st, CommandEvent(ToUpper(payload)), TRUE, "ok").state :
                payload \in {q \in Payloads : CommandEvent(ToUpper(q)) # ""}}
           BySnapshot(st) ==
             {IF DriverEvent(position) = "" \/ Elided(st, DriverEvent(position)) THEN st
              ELSE Trigger(d, st, DriverEvent(position), TRUE, "ok").state :
                position \in Positions \cap (1..99)}
           Reached[k \in 0..Cardinality(Active) + 2] ==
             IF k = 0 THEN {current[d]}
             ELSE Reached[k - 1]
                    \cup UNION {ByCommand(st) \cup BySnapshot(st) : st \in Reached[k - 1]}
       IN \E st \in Reached[Cardinality(Active) + 2] :
            Allowed(st, "go_open") \/ Allowed(st, "go_close")

\* C40: readData does not panic: for an encrypted payload whose data decodes
\* to no byte at all, or to a number of bytes that is no multiple of 16, it
\* returns an error or an empty result, as it returns something for every
\* other payload.
C40_ReadDataNeverPanics ==
  /\ decrypted # Panic
  /\ ( /\ decrypted # Unset
       /\ dp.IsEncrypted /\ dp.valid
       /\ (Len(dp.bytes) % BlockSize # 0 \/ Len(dp.bytes) = 0) )
     => decrypted \in {Failed, <<>>}

====
